---- MODULE Spec2Model ----
(***************************************************************************)
(* CogniRead content script (src/cognitive-engine.js): the reversible text *)
(* transform pipelines of class CogniRead (simplify, expand, tone, active  *)
(* voice, sentence restructuring), their reversal, and "reset all".        *)
(*                                                                         *)
(* The page is a list of <p> elements in document order.  JavaScript runs  *)
(* each handler to its next await, so one action is one such run: an event *)
(* handler up to the first awaited transform call, or the continuation of  *)
(* a pipeline from the settling of one call to the issue of the next.      *)
(* The 50 ms pause after every tenth paragraph and the awaits of           *)
(* savePreferences change no modelled state and are folded into the step   *)
(* that precedes them.                                                     *)
(***************************************************************************)
EXTENDS Integers, Sequences, FiniteSets, TLC

\* ---------------------------------------------------------------- bounds
NumParas == 2        \* <p> elements of the page
MaxPipes == 2        \* pipeline invocations awaiting a transform call at once
MaxLevel == 1        \* slider positions offered to the user (the slider has 0..4)
MaxFailures == 1     \* transform calls that throw in one run

MaxCalls == 2        \* AIService calls under way at once
MaxSessions == 3     \* language model sessions created in one run
MaxTLDR == 2         \* showTLDR invocations awaiting the summary at once

Paras == 1..NumParas

\* ------------------------------------------------------ program constants
MinSubstantialLength == 20
MinChunkLength == 10

\* -------------------------------------------------------- text and markup
\* Markup is a sequence of tokens: a character, an entity or a tag.
\* Text is a sequence of characters.
Undefined == <<"undefined">>          \* an absent dataset key

TagTokens == {"<b>", "</b>"}

RECURSIVE Rep(_, _)
Rep(c, n) == IF n = 0 THEN <<>> ELSE <<c>> \o Rep(c, n - 1)

\* what the HTML parser makes of one non-tag token
DecodeToken(tok) ==
  CASE tok = "&lt;"  -> "<"
    [] tok = "&gt;"  -> ">"
    [] tok = "&amp;" -> "&"
    [] OTHER         -> tok

\* element.textContent: tags contribute nothing, entities are decoded
RECURSIVE textContent(_)
textContent(html) ==
  IF html = <<>> THEN <<>>
  ELSE IF Head(html) \in TagTokens THEN textContent(Tail(html))
  ELSE <<DecodeToken(Head(html))>> \o textContent(Tail(html))

RECURSIVE trimStart(_)
trimStart(t) == IF t # <<>> /\ Head(t) = " " THEN trimStart(Tail(t)) ELSE t

RECURSIVE trimEnd(_)
trimEnd(t) ==
  IF t # <<>> /\ t[Len(t)] = " " THEN trimEnd(SubSeq(t, 1, Len(t) - 1)) ELSE t

\* String.prototype.trim
trim(t) == trimEnd(trimStart(t))

EscapeChar(c) ==
  CASE c = "<" -> "&lt;"
    [] c = ">" -> "&gt;"
    [] c = "&" -> "&amp;"
    [] OTHER   -> c

\* escapeHtml: div.textContent = text; return div.innerHTML
escapeHtml(text) == [k \in 1..Len(text) |-> EscapeChar(text[k])]

\* a dataset value used as an if-condition
Truthy(v) == v # Undefined /\ v # <<>>

\* ------------------------------------------------------------- the page
\* a paragraph with leading white space, inline markup and an entity, and one
\* too short to be "substantial"
RichHTML  == <<" ", "<b>", "&amp;">> \o Rep("a", MinSubstantialLength) \o <<"</b>">>
ShortHTML == Rep("a", 5)
PageParagraphs == {RichHTML, ShortHTML}

\* what the external transform function may answer (already trimmed)
LongResult  == <<"<">> \o Rep("b", MinSubstantialLength)
ShortResult == Rep("b", 3)
Results == {LongResult}

\* ----------------------------------------------------------- the features
SimplifiedClass   == "cogniread-simplified-text"
ExpandedClass     == "cogniread-expanded-text"
ToneClass         == "cogniread-tone-adjusted"
ActiveVoiceClass  == "cogniread-active-voice"
RestructuredClass == "cogniread-restructured"

MarkerClass(kind) ==
  CASE kind = "simplify"    -> SimplifiedClass
    [] kind = "expand"      -> ExpandedClass
    [] kind = "tone"        -> ToneClass
    [] kind = "activeVoice" -> ActiveVoiceClass
    [] kind = "restructure" -> RestructuredClass

MarkerClasses ==
  {SimplifiedClass, ExpandedClass, ToneClass, ActiveVoiceClass, RestructuredClass}

FocusedClass == "cogniread-focused"

VARIABLES
  dom,      \* per <p>: innerHTML, classList, dataset.originalHTML, dataset.originalText
  state,    \* CogniRead.state, the feature flags
  ui,       \* control panel: slider value, tone select value, toggles with class "active"
  pipes,    \* pipeline invocations suspended in an awaited transform call
  view,     \* the elements the extension adds to the page: TL;DR container, focus overlay
  svc,      \* AIService: the language model session and the call under way
  calc,     \* argument and result of the function under study
  lit,      \* the headings of the page, each as its sequence of text nodes and idiom spans
  background, \* background service worker: activeTabs, the injections under way
  tabs,     \* the browser's tabs: open or closed, the scripts in the current document
  promptAPI, \* PromptAPIService: availability, the sessions it created, its calls
  reader,   \* DistractionFreeMode: its fields and the children of document.body
  pristine, \* history: innerHTML of each <p> when the page was loaded
  last,     \* history: the step taken last
  failures  \* history: number of transform calls that threw

vars == <<dom, state, ui, pipes, view, svc, calc, lit, background, tabs,
          promptAPI, reader, pristine, last, failures>>

\* what the content script's handlers never touch
others == <<background, tabs, promptAPI, reader>>
aux == <<svc, calc, lit, others>>

\* ------------------------------------------------------------ DOM helpers
\* container.querySelectorAll('p') filtered to the substantial ones, in
\* document order (every <p> of the model lies in the main container and
\* outside nav, header, footer, aside and ad blocks; a <p> that was taken out
\* of the document is not found)
RECURSIVE ParagraphsFrom(_, _)
ParagraphsFrom(d, p) ==
  IF p > NumParas THEN <<>>
  ELSE IF d[p].attached
          /\ Len(trim(textContent(d[p].innerHTML))) >= MinSubstantialLength
       THEN <<p>> \o ParagraphsFrom(d, p + 1)
       ELSE ParagraphsFrom(d, p + 1)

\* a loop that walked the paragraphs from the last to the first
findSubstantialParagraphsReversed(d) ==
  LET sq == ParagraphsFrom(d, 1) IN [k \in 1..Len(sq) |-> sq[Len(sq) + 1 - k]]

findSubstantialParagraphs(d) == ParagraphsFrom(d, 1)

hideAllLoadingModals(ps) == [j \in 1..Len(ps) |-> [ps[j] EXCEPT !.loading = FALSE]]

\* removeSimplification / removeExpansion on one marked element
RestoreWithTextFallback(n, cls) ==
  IF Truthy(n.originalHTML)
  THEN [n EXCEPT !.innerHTML = n.originalHTML, !.classList = n.classList \ {cls},
                 !.originalHTML = Undefined, !.originalText = Undefined]
  ELSE IF Truthy(n.originalText)
  THEN [n EXCEPT !.innerHTML = escapeHtml(n.originalText),
                 !.classList = n.classList \ {cls}, !.originalText = Undefined]
  ELSE [n EXCEPT !.classList = n.classList \ {cls}]

\* removeToneAdjustment / removeActiveVoice / removeSentenceRestructuring on
\* one marked element
RestoreMarkupOnly(n, cls) ==
  IF Truthy(n.originalHTML)
  THEN [n EXCEPT !.innerHTML = n.originalHTML, !.classList = n.classList \ {cls},
                 !.originalHTML = Undefined, !.originalText = Undefined]
  ELSE [n EXCEPT !.classList = n.classList \ {cls}]

\* The remove* operations act on the document: the paragraphs (d) and, through
\* hideAllLoadingModals, the loading elements of the pending pipelines (ps).
RestoreAll(d, cls, withTextFallback) ==
  [p \in Paras |-> IF d[p].attached /\ cls \in d[p].classList
                   THEN IF withTextFallback THEN RestoreWithTextFallback(d[p], cls)
                                            ELSE RestoreMarkupOnly(d[p], cls)
                   ELSE d[p]]

removeSimplification(d, ps) ==
  [dom |-> RestoreAll(d, SimplifiedClass, TRUE), pipes |-> hideAllLoadingModals(ps)]

removeExpansion(d, ps) ==
  [dom |-> RestoreAll(d, ExpandedClass, TRUE), pipes |-> hideAllLoadingModals(ps)]

removeToneAdjustment(d, ps) ==
  [dom |-> RestoreAll(d, ToneClass, FALSE), pipes |-> ps]

removeActiveVoice(d, ps) ==
  [dom |-> RestoreAll(d, ActiveVoiceClass, FALSE), pipes |-> hideAllLoadingModals(ps)]

removeSentenceRestructuring(d, ps) ==
  [dom |-> RestoreAll(d, RestructuredClass, FALSE), pipes |-> hideAllLoadingModals(ps)]

\* ------------------------------------------------------------- pipelines
\* the paragraph loop of applyTextSimplification, applyTextExpansion,
\* applyToneAdjustment, applyActiveVoiceConversion, applySentenceRestructuring

\* simplify and expand mark a paragraph whose call failed; the others do not
MarksOnFailure(kind) == kind \in {"simplify", "expand"}

\* the head of one loop iteration: read the text, issue the call
IssueCall(pipe, d, k) ==
  [pipe EXCEPT !.i = k,
               !.originalText = trim(textContent(d[pipe.paragraphs[k]].innerHTML)),
               !.issued = Append(pipe.issued, pipe.paragraphs[k])]

\* from the entry of apply* to its first await; no paragraphs: return at once.
\* issued, handled and resetAt are history: the paragraphs whose call was
\* issued, those whose outcome was handled, and how many calls had been
\* issued when "reset all" last ran (0: it did not)
StartPipeline(ps, d, kind) ==
  LET paragraphs == findSubstantialParagraphs(d) IN
  IF paragraphs = <<>> THEN ps
  ELSE Append(ps, IssueCall([kind |-> kind, paragraphs |-> paragraphs, i |-> 0,
                             originalText |-> <<>>, loading |-> TRUE,
                             issued |-> <<>>, handled |-> <<>>,
                             resetAt |-> 0], d, 1))

\* the try block after the awaited call returned `result`
WriteResult(n, kind, originalText, result) ==
  [n EXCEPT !.innerHTML    = escapeHtml(result),
            !.classList    = n.classList \cup {MarkerClass(kind)},
            !.originalHTML = n.innerHTML,
            !.originalText = originalText]

\* the catch block after the awaited call threw
HandleFailure(n, kind, originalText) ==
  IF MarksOnFailure(kind)
  THEN [n EXCEPT !.originalText = originalText,
                 !.classList = n.classList \cup {MarkerClass(kind)}]
  ELSE n

RemoveAt(s, j) == SubSeq(s, 1, j - 1) \o SubSeq(s, j + 1, Len(s))

\* after paragraph i: the next iteration up to its await, or the end of the
\* loop (finally: the loading element is removed, the invocation is over)
Advance(ps, j, d) ==
  LET pipe == [ps[j] EXCEPT !.handled = Append(ps[j].handled, ps[j].paragraphs[ps[j].i])] IN
  IF pipe.i < Len(pipe.paragraphs)
  THEN [ps EXCEPT ![j] = IssueCall(pipe, d, pipe.i + 1)]
  ELSE RemoveAt(ps, j)

CanStart == Len(pipes) < MaxPipes

\* ------------------------------------------------------------ focus mode
\* CognitiveEngine.chunkContent.  A candidate is an element the selector
\* 'p, h1, ..., li, blockquote, div' finds in the main container: its tag, the
\* kinds of element among itself and its ancestors (what closest() looks at),
\* the length of its trimmed text and the number of its descendants matching
\* 'p, h1, ..., h6, div, article, section'.
MinDivLength == 50
MaxChildBlocks == 2

UnwantedKinds == {"nav", "footer"}   \* also .ad, .advertisement, script, style
ArticleKinds  == {"article"}         \* also main, [role="main"], [role="article"]
OwnKind       == "cogniread"         \* [id^="cogniread"], [class^="cogniread"]

\* the exclusion filter without the allowance for the header of an article
PassesExclusionFilterAnyHeader(c) ==
  /\ c.within \cap UnwantedKinds = {}
  /\ "header" \notin c.within
  /\ OwnKind \notin c.within

\* the exclusion filter
PassesExclusionFilter(c) ==
  LET inHeader  == "header" \in c.within
      inArticle == c.within \cap ArticleKinds # {}
      isArticleHeader == inHeader /\ inArticle
  IN
  /\ ~(c.within \cap UnwantedKinds # {} \/ (inHeader /\ ~isArticleHeader))
  /\ OwnKind \notin c.within

\* the length gate with the limit of a <p> for every tag
LongEnoughAsParagraph(c) == c.length >= MinChunkLength

\* the length gate
LongEnough(c) ==
  LET minLength == IF c.tag = "div" THEN MinDivLength ELSE MinChunkLength IN
  c.length >= minLength

\* the container check of a div
NotAContainer(c) == c.tag = "div" => c.childBlocks <= MaxChildBlocks

Accepted(c) == PassesExclusionFilter(c) /\ LongEnough(c) /\ NotAContainer(c)

\* the chunks of a sequence of candidates, as their positions
RECURSIVE chunksOf(_, _)
chunksOf(elements, i) ==
  IF i > Len(elements) THEN <<>>
  ELSE (IF Accepted(elements[i]) THEN <<i>> ELSE <<>>) \o chunksOf(elements, i + 1)

\* a <p> of the model as a candidate: it lies in the article and outside nav,
\* header and footer, it has no class of its own (so its class attribute
\* starts with "cogniread" as soon as it carries a class the extension
\* added), and a <p> taken out of the document is not found
Candidate(n) ==
  [tag |-> "p",
   within |-> {"article"} \cup (IF n.classList # {} THEN {OwnKind} ELSE {}),
   length |-> Len(trim(textContent(n.innerHTML))),
   childBlocks |-> 0]

RECURSIVE ChunksFrom(_, _)
ChunksFrom(d, p) ==
  IF p > NumParas THEN <<>>
  ELSE IF d[p].attached /\ Accepted(Candidate(d[p]))
       THEN <<p>> \o ChunksFrom(d, p + 1)
       ELSE ChunksFrom(d, p + 1)

chunkContent(d) == ChunksFrom(d, 1)

\* clearFocusMode, and the head of showFocusChunk: querySelectorAll finds
\* the elements that are in the document
clearFocusMode(d) ==
  [p \in Paras |-> IF d[p].attached
                   THEN [d[p] EXCEPT !.classList = d[p].classList \ {FocusedClass}]
                   ELSE d[p]]

\* showFocusChunk without the test document.body.contains(chunk.element)
showFocusChunkUnchecked(d, v, chunks, index) ==
  LET d1 == clearFocusMode(d) IN
  IF index >= 0 /\ index < Len(chunks)
  THEN LET e == chunks[index + 1] IN
       [dom  |-> [d1 EXCEPT ![e].classList = d1[e].classList \cup {FocusedClass}],
        view |-> [v EXCEPT !.focusContent = d1[e].innerHTML]]
  ELSE [dom |-> d1, view |-> v]

\* showFocusChunk(index), index counted from 0 as in the source
showFocusChunk(d, v, chunks, index) ==
  LET d1 == clearFocusMode(d) IN
  IF index >= 0 /\ index < Len(chunks)
  THEN LET e == chunks[index + 1] IN
       IF ~d1[e].attached
       THEN [dom |-> d1, view |-> v]
       ELSE [dom  |-> [d1 EXCEPT ![e].classList = d1[e].classList \cup {FocusedClass}],
             view |-> [v EXCEPT !.focusContent = d1[e].innerHTML]]
  ELSE [dom |-> d1, view |-> v]

\* "if focus mode is active, refresh the current chunk"
RefreshFocus(d, v, st) ==
  IF st.focusMode THEN showFocusChunk(d, v, st.contentChunks, st.currentFocusIndex)
  ELSE [dom |-> d, view |-> v]

\* hideTLDR: getElementById finds the first container, if any
hideTLDR(v) == [v EXCEPT !.tldr = IF v.tldr # <<>> THEN Tail(v.tldr) ELSE <<>>]

\* ---------------------------------------------------------------------
\* Idiom detection from the dictionary (AIService.fallbackIdiomDetection)
\* ---------------------------------------------------------------------

\* a string is the sequence of its characters
UpperCase == <<"A", "B", "C", "D", "E", "F", "G", "H", "I", "J", "K", "L", "M",
               "N", "O", "P", "Q", "R", "S", "T", "U", "V", "W", "X", "Y", "Z">>
LowerCase == <<"a", "b", "c", "d", "e", "f", "g", "h", "i", "j", "k", "l", "m",
               "n", "o", "p", "q", "r", "s", "t", "u", "v", "w", "x", "y", "z">>

\* String.prototype.toLowerCase
LowerOf ==
  [c \in {UpperCase[k] : k \in DOMAIN UpperCase} |->
     LowerCase[CHOOSE k \in DOMAIN UpperCase : UpperCase[k] = c]]

toLowerCase(s) ==
  [i \in DOMAIN s |-> IF s[i] \in DOMAIN LowerOf THEN LowerOf[s[i]] ELSE s[i]]

\* String.prototype.includes
includes(s, t) ==
  \E i \in 1..(Len(s) - Len(t) + 1) : SubSeq(s, i, i + Len(t) - 1) = t

\* window.IDIOMS_DICTIONARY: the entries in the order they are written
IDIOMS_DICTIONARY == <<
  [idiom |-> <<"a", " ", "h", "o", "t", " ", "p", "o", "t", "a", "t", "o">>,
   literal |-> "a disputed issue that many people are talking about"],
  [idiom |-> <<"a", " ", "p", "e", "n", "n", "y", " ", "f", "o", "r", " ", "y", "o",
               "u", "r", " ", "t", "h", "o", "u", "g", "h", "t", "s">>,
   literal |-> "asking what someone is thinking"],
  [idiom |-> <<"a", "c", "t", "i", "o", "n", "s", " ", "s", "p", "e", "a", "k", " ",
               "l", "o", "u", "d", "e", "r", " ", "t", "h", "a", "n", " ", "w", "o",
               "r", "d", "s">>,
   literal |-> "intentions are judged by actions not words"],
  [idiom |-> <<"a", "d", "d", " ", "i", "n", "s", "u", "l", "t", " ", "t", "o", " ",
               "i", "n", "j", "u", "r", "y">>,
   literal |-> "make a bad situation worse"],
  [idiom |-> <<"a", "n", " ", "a", "r", "m", " ", "a", "n", "d", " ", "a", " ", "l",
               "e", "g">>,
   literal |-> "very expensive"],
  [idiom |-> <<"a", "s", " ", "r", "i", "g", "h", "t", " ", "a", "s", " ", "r", "a",
               "i", "n">>,
   literal |-> "perfect or in good health"],
  [idiom |-> <<"a", "t", " ", "t", "h", "e", " ", "d", "r", "o", "p", " ", "o", "f",
               " ", "a", " ", "h", "a", "t">>,
   literal |-> "without any hesitation"],
  [idiom |-> <<"b", "a", "c", "k", " ", "t", "o", " ", "t", "h", "e", " ", "d", "r",
               "a", "w", "i", "n", "g", " ", "b", "o", "a", "r", "d">>,
   literal |-> "start over after a failure"],
  [idiom |-> <<"b", "a", "l", "l", " ", "i", "s", " ", "i", "n", " ", "y", "o", "u",
               "r", " ", "c", "o", "u", "r", "t">>,
   literal |-> "it is your decision"],
  [idiom |-> <<"b", "a", "r", "k", "i", "n", "g", " ", "u", "p", " ", "t", "h", "e",
               " ", "w", "r", "o", "n", "g", " ", "t", "r", "e", "e">>,
   literal |-> "looking in the wrong place"],
  [idiom |-> <<"b", "e", " ", "g", "l", "a", "d", " ", "t", "o", " ", "s", "e", "e",
               " ", "t", "h", "e", " ", "b", "a", "c", "k", " ", "o", "f">>,
   literal |-> "be happy when a person leaves"],
  [idiom |-> <<"b", "e", "a", "t", " ", "a", "r", "o", "u", "n", "d", " ", "t", "h",
               "e", " ", "b", "u", "s", "h">>,
   literal |-> "avoiding the main topic"],
  [idiom |-> <<"b", "e", "s", "t", " ", "o", "f", " ", "b", "o", "t", "h", " ", "w",
               "o", "r", "l", "d", "s">>,
   literal |-> "all the advantages"],
  [idiom |-> <<"b", "e", "s", "t", " ", "t", "h", "i", "n", "g", " ", "s", "i", "n",
               "c", "e", " ", "s", "l", "i", "c", "e", "d", " ", "b", "r", "e", "a",
               "d">>,
   literal |-> "a good invention or innovation"],
  [idiom |-> <<"b", "i", "t", "e", " ", "o", "f", "f", " ", "m", "o", "r", "e", " ",
               "t", "h", "a", "n", " ", "y", "o", "u", " ", "c", "a", "n", " ", "c",
               "h", "e", "w">>,
   literal |-> "take on a task that is too big"],
  [idiom |-> <<"b", "l", "e", "s", "s", "i", "n", "g", " ", "i", "n", " ", "d", "i",
               "s", "g", "u", "i", "s", "e">>,
   literal |-> "something good that is not recognized at first"],
  [idiom |-> <<"b", "r", "e", "a", "k", " ", "a", " ", "l", "e", "g">>,
   literal |-> "good luck"],
  [idiom |-> <<"b", "u", "r", "n", " ", "t", "h", "e", " ", "m", "i", "d", "n", "i",
               "g", "h", "t", " ", "o", "i", "l">>,
   literal |-> "work late into the night"],
  [idiom |-> <<"b", "y", " ", "t", "h", "e", " ", "s", "k", "i", "n", " ", "o", "f",
               " ", "y", "o", "u", "r", " ", "t", "e", "e", "t", "h">>,
   literal |-> "just barely"],
  [idiom |-> <<"c", "a", "n", "'", "t", " ", "j", "u", "d", "g", "e", " ", "a", " ",
               "b", "o", "o", "k", " ", "b", "y", " ", "i", "t", "s", " ", "c", "o",
               "v", "e", "r">>,
   literal |-> "cannot judge by appearance"],
  [idiom |-> <<"c", "a", "u", "g", "h", "t", " ", "b", "e", "t", "w", "e", "e", "n",
               " ", "t", "w", "o", " ", "s", "t", "o", "o", "l", "s">>,
   literal |-> "difficult to choose between two alternatives"],
  [idiom |-> <<"c", "o", "m", "e", " ", "r", "a", "i", "n", " ", "o", "r", " ", "s",
               "h", "i", "n", "e">>,
   literal |-> "no matter what happens"],
  [idiom |-> <<"c", "o", "s", "t", "s", " ", "a", "n", " ", "a", "r", "m", " ", "a",
               "n", "d", " ", "a", " ", "l", "e", "g">>,
   literal |-> "very expensive"],
  [idiom |-> <<"c", "r", "o", "s", "s", " ", "t", "h", "a", "t", " ", "b", "r", "i",
               "d", "g", "e", " ", "w", "h", "e", "n", " ", "y", "o", "u", " ", "c",
               "o", "m", "e", " ", "t", "o", " ", "i", "t">>,
   literal |-> "deal with a problem when it happens"],
  [idiom |-> <<"c", "r", "y", " ", "o", "v", "e", "r", " ", "s", "p", "i", "l", "t",
               " ", "m", "i", "l", "k">>,
   literal |-> "complain about a loss from the past"],
  [idiom |-> <<"c", "u", "r", "i", "o", "s", "i", "t", "y", " ", "k", "i", "l", "l",
               "e", "d", " ", "t", "h", "e", " ", "c", "a", "t">>,
   literal |-> "being inquisitive can lead to trouble"],
  [idiom |-> <<"c", "u", "t", " ", "c", "o", "r", "n", "e", "r", "s">>,
   literal |-> "done badly to save money"],
  [idiom |-> <<"c", "u", "t", " ", "t", "h", "e", " ", "m", "u", "s", "t", "a", "r",
               "d">>,
   literal |-> "succeed or meet expectations"],
  [idiom |-> <<"d", "e", "v", "i", "l", "'", "s", " ", "a", "d", "v", "o", "c", "a",
               "t", "e">>,
   literal |-> "present a counter argument"],
  [idiom |-> <<"d", "o", "n", "'", "t", " ", "c", "o", "u", "n", "t", " ", "y", "o",
               "u", "r", " ", "c", "h", "i", "c", "k", "e", "n", "s", " ", "b", "e",
               "f", "o", "r", "e", " ", "t", "h", "e", " ", "e", "g", "g", "s", " ",
               "h", "a", "v", "e", " ", "h", "a", "t", "c", "h", "e", "d">>,
   literal |-> "do not make plans for something that might not happen"],
  [idiom |-> <<"d", "o", "n", "'", "t", " ", "g", "i", "v", "e", " ", "u", "p", " ",
               "t", "h", "e", " ", "d", "a", "y", " ", "j", "o", "b">>,
   literal |-> "you are not very good at something"],
  [idiom |-> <<"d", "o", "n", "'", "t", " ", "p", "u", "t", " ", "a", "l", "l", " ",
               "y", "o", "u", "r", " ", "e", "g", "g", "s", " ", "i", "n", " ", "o",
               "n", "e", " ", "b", "a", "s", "k", "e", "t">>,
   literal |-> "do not put all resources in one possibility"],
  [idiom |-> <<"d", "r", "a", "s", "t", "i", "c", " ", "t", "i", "m", "e", "s", " ",
               "c", "a", "l", "l", " ", "f", "o", "r", " ", "d", "r", "a", "s", "t",
               "i", "c", " ", "m", "e", "a", "s", "u", "r", "e", "s">>,
   literal |-> "desperate situations need drastic actions"],
  [idiom |-> <<"e", "l", "v", "i", "s", " ", "h", "a", "s", " ", "l", "e", "f", "t",
               " ", "t", "h", "e", " ", "b", "u", "i", "l", "d", "i", "n", "g">>,
   literal |-> "the show has come to an end"],
  [idiom |-> <<"e", "v", "e", "r", "y", " ", "c", "l", "o", "u", "d", " ", "h", "a",
               "s", " ", "a", " ", "s", "i", "l", "v", "e", "r", " ", "l", "i", "n",
               "i", "n", "g">>,
   literal |-> "be optimistic even in difficult times"],
  [idiom |-> <<"f", "a", "r", " ", "c", "r", "y", " ", "f", "r", "o", "m">>,
   literal |-> "very different from"],
  [idiom |-> <<"f", "e", "e", "l", " ", "a", " ", "b", "i", "t", " ", "u", "n", "d",
               "e", "r", " ", "t", "h", "e", " ", "w", "e", "a", "t", "h", "e", "r">>,
   literal |-> "feeling slightly ill"],
  [idiom |-> <<"g", "i", "v", "e", " ", "t", "h", "e", " ", "b", "e", "n", "e", "f",
               "i", "t", " ", "o", "f", " ", "t", "h", "e", " ", "d", "o", "u", "b",
               "t">>,
   literal |-> "believe someone without proof"],
  [idiom |-> <<"g", "o", " ", "b", "a", "c", "k", " ", "t", "o", " ", "t", "h", "e",
               " ", "d", "r", "a", "w", "i", "n", "g", " ", "b", "o", "a", "r", "d">>,
   literal |-> "start over"],
  [idiom |-> <<"g", "o", " ", "d", "o", "w", "n", " ", "i", "n", " ", "f", "l", "a",
               "m", "e", "s">>,
   literal |-> "fail spectacularly"],
  [idiom |-> <<"g", "e", "t", " ", "o", "u", "t", " ", "o", "f", " ", "h", "a", "n",
               "d">>,
   literal |-> "become uncontrollable"],
  [idiom |-> <<"g", "e", "t", " ", "y", "o", "u", "r", " ", "a", "c", "t", " ", "t",
               "o", "g", "e", "t", "h", "e", "r">>,
   literal |-> "organize yourself"],
  [idiom |-> <<"g", "i", "v", "e", " ", "s", "o", "m", "e", "o", "n", "e", " ", "t",
               "h", "e", " ", "c", "o", "l", "d", " ", "s", "h", "o", "u", "l", "d",
               "e", "r">>,
   literal |-> "ignore someone"],
  [idiom |-> <<"h", "e", "a", "r", " ", "i", "t", " ", "o", "n", " ", "t", "h", "e",
               " ", "g", "r", "a", "p", "e", "v", "i", "n", "e">>,
   literal |-> "hear rumors"],
  [idiom |-> <<"h", "i", "t", " ", "t", "h", "e", " ", "n", "a", "i", "l", " ", "o",
               "n", " ", "t", "h", "e", " ", "h", "e", "a", "d">>,
   literal |-> "do or say something exactly right"],
  [idiom |-> <<"h", "i", "t", " ", "t", "h", "e", " ", "s", "a", "c", "k">>,
   literal |-> "go to bed"],
  [idiom |-> <<"h", "i", "t", " ", "t", "h", "e", " ", "s", "h", "e", "e", "t", "s">>,
   literal |-> "go to bed"],
  [idiom |-> <<"h", "i", "t", " ", "t", "h", "e", " ", "h", "a", "y">>,
   literal |-> "go to bed"],
  [idiom |-> <<"h", "a", "n", "g", " ", "i", "n", " ", "t", "h", "e", "r", "e">>,
   literal |-> "persevere"],
  [idiom |-> <<"i", "n", " ", "t", "h", "e", " ", "h", "e", "a", "t", " ", "o", "f",
               " ", "t", "h", "e", " ", "m", "o", "m", "e", "n", "t">>,
   literal |-> "overwhelmed by what is happening"],
  [idiom |-> <<"i", "t", " ", "t", "a", "k", "e", "s", " ", "t", "w", "o", " ", "t",
               "o", " ", "t", "a", "n", "g", "o">>,
   literal |-> "actions need more than one person"],
  [idiom |-> <<"j", "u", "m", "p", " ", "o", "n", " ", "t", "h", "e", " ", "b", "a",
               "n", "d", "w", "a", "g", "o", "n">>,
   literal |-> "join a popular trend"],
  [idiom |-> <<"k", "e", "e", "p", " ", "s", "o", "m", "e", "t", "h", "i", "n", "g",
               " ", "a", "t", " ", "b", "a", "y">>,
   literal |-> "keep something away"],
  [idiom |-> <<"k", "i", "l", "l", " ", "t", "w", "o", " ", "b", "i", "r", "d", "s",
               " ", "w", "i", "t", "h", " ", "o", "n", "e", " ", "s", "t", "o", "n",
               "e">>,
   literal |-> "accomplish two things at the same time"],
  [idiom |-> <<"l", "a", "s", "t", " ", "s", "t", "r", "a", "w">>,
   literal |-> "the final problem in a series"],
  [idiom |-> <<"l", "e", "t", " ", "s", "l", "e", "e", "p", "i", "n", "g", " ", "d",
               "o", "g", "s", " ", "l", "i", "e">>,
   literal |-> "do not disturb a situation"],
  [idiom |-> <<"l", "e", "t", " ", "t", "h", "e", " ", "c", "a", "t", " ", "o", "u",
               "t", " ", "o", "f", " ", "t", "h", "e", " ", "b", "a", "g">>,
   literal |-> "share information that was concealed"],
  [idiom |-> <<"l", "e", "t", " ", "s", "o", "m", "e", "o", "n", "e", " ", "o", "f",
               "f", " ", "t", "h", "e", " ", "h", "o", "o", "k">>,
   literal |-> "not punish someone"],
  [idiom |-> <<"m", "a", "k", "e", " ", "a", " ", "l", "o", "n", "g", " ", "s", "t",
               "o", "r", "y", " ", "s", "h", "o", "r", "t">>,
   literal |-> "come to the point"],
  [idiom |-> <<"m", "e", "t", "h", "o", "d", " ", "t", "o", " ", "m", "y", " ", "m",
               "a", "d", "n", "e", "s", "s">>,
   literal |-> "there is structure to my approach"],
  [idiom |-> <<"m", "i", "s", "s", " ", "t", "h", "e", " ", "b", "o", "a", "t">>,
   literal |-> "miss your chance"],
  [idiom |-> <<"n", "o", "t", " ", "a", " ", "s", "p", "a", "r", "k", " ", "o", "f",
               " ", "d", "e", "c", "e", "n", "c", "y">>,
   literal |-> "no manners"],
  [idiom |-> <<"n", "o", "t", " ", "p", "l", "a", "y", "i", "n", "g", " ", "w", "i",
               "t", "h", " ", "a", " ", "f", "u", "l", "l", " ", "d", "e", "c", "k">>,
   literal |-> "lacks intelligence"],
  [idiom |-> <<"n", "o", " ", "p", "a", "i", "n", ",", " ", "n", "o", " ", "g", "a",
               "i", "n">>,
   literal |-> "hard work brings rewards"],
  [idiom |-> <<"o", "f", "f", " ", "o", "n", "e", "'", "s", " ", "r", "o", "c", "k",
               "e", "r">>,
   literal |-> "crazy or demented"],
  [idiom |-> <<"o", "n", " ", "t", "h", "e", " ", "b", "a", "l", "l">>,
   literal |-> "understands the situation well"],
  [idiom |-> <<"o", "n", "c", "e", " ", "i", "n", " ", "a", " ", "b", "l", "u", "e",
               " ", "m", "o", "o", "n">>,
   literal |-> "happens very rarely"],
  [idiom |-> <<"p", "i", "c", "t", "u", "r", "e", " ", "p", "a", "i", "n", "t", "s",
               " ", "a", " ", "t", "h", "o", "u", "s", "a", "n", "d", " ", "w", "o",
               "r", "d", "s">>,
   literal |-> "visual presentation is more descriptive"],
  [idiom |-> <<"p", "i", "e", "c", "e", " ", "o", "f", " ", "c", "a", "k", "e">>,
   literal |-> "easy or simple task"],
  [idiom |-> <<"p", "u", "l", "l", " ", "s", "o", "m", "e", "o", "n", "e", "'", "s",
               " ", "l", "e", "g">>,
   literal |-> "joke with someone or tease them"],
  [idiom |-> <<"p", "u", "l", "l", " ", "y", "o", "u", "r", "s", "e", "l", "f", " ",
               "t", "o", "g", "e", "t", "h", "e", "r">>,
   literal |-> "calm down"],
  [idiom |-> <<"p", "u", "t", " ", "w", "o", "o", "l", " ", "o", "v", "e", "r", " ",
               "o", "t", "h", "e", "r", " ", "p", "e", "o", "p", "l", "e", "'", "s",
               " ", "e", "y", "e", "s">>,
   literal |-> "deceive someone"],
  [idiom |-> <<"s", "a", "t", " ", "o", "n", " ", "t", "h", "e", " ", "f", "e", "n",
               "c", "e">>,
   literal |-> "not make a decision"],
  [idiom |-> <<"s", "e", "e", " ", "e", "y", "e", " ", "t", "o", " ", "e", "y", "e">>,
   literal |-> "agree on something"],
  [idiom |-> <<"s", "i", "t", " ", "o", "n", " ", "t", "h", "e", " ", "f", "e", "n",
               "c", "e">>,
   literal |-> "not make a decision"],
  [idiom |-> <<"s", "p", "e", "a", "k", " ", "o", "f", " ", "t", "h", "e", " ", "d",
               "e", "v", "i", "l">>,
   literal |-> "the person being talked about arrives"],
  [idiom |-> <<"s", "t", "e", "a", "l", " ", "s", "o", "m", "e", "o", "n", "e", "'",
               "s", " ", "t", "h", "u", "n", "d", "e", "r">>,
   literal |-> "take credit for what someone else did"],
  [idiom |-> <<"s", "o", " ", "f", "a", "r", " ", "s", "o", " ", "g", "o", "o", "d">>,
   literal |-> "everything is okay"],
  [idiom |-> <<"s", "p", "i", "l", "l", " ", "t", "h", "e", " ", "b", "e", "a", "n",
               "s">>,
   literal |-> "reveal a secret"],
  [idiom |-> <<"t", "a", "k", "e", " ", "w", "i", "t", "h", " ", "a", " ", "g", "r",
               "a", "i", "n", " ", "o", "f", " ", "s", "a", "l", "t">>,
   literal |-> "do not take too seriously"],
  [idiom |-> <<"t", "a", "k", "e", " ", "w", "i", "t", "h", " ", "a", " ", "p", "i",
               "n", "c", "h", " ", "o", "f", " ", "s", "a", "l", "t">>,
   literal |-> "do not take too seriously"],
  [idiom |-> <<"t", "a", "s", "t", "e", " ", "o", "f", " ", "y", "o", "u", "r", " ",
               "o", "w", "n", " ", "m", "e", "d", "i", "c", "i", "n", "e">>,
   literal |-> "something you did to others happens to you"],
  [idiom |-> <<"t", "h", "r", "o", "u", "g", "h", " ", "t", "h", "i", "c", "k", " ",
               "a", "n", "d", " ", "t", "h", "i", "n">>,
   literal |-> "in good times and bad times"],
  [idiom |-> <<"t", "o", " ", "h", "e", "a", "r", " ", "s", "o", "m", "e", "t", "h",
               "i", "n", "g", " ", "s", "t", "r", "a", "i", "g", "h", "t", " ", "f",
               "r", "o", "m", " ", "t", "h", "e", " ", "h", "o", "r", "s", "e", "'",
               "s", " ", "m", "o", "u", "t", "h">>,
   literal |-> "hear from the authoritative source"],
  [idiom |-> <<"t", "h", "e", " ", "b", "a", "l", "l", " ", "i", "s", " ", "i", "n",
               " ", "y", "o", "u", "r", " ", "c", "o", "u", "r", "t">>,
   literal |-> "it is your decision"],
  [idiom |-> <<"t", "h", "e", " ", "b", "e", "s", "t", " ", "o", "f", " ", "b", "o",
               "t", "h", " ", "w", "o", "r", "l", "d", "s">>,
   literal |-> "ideal situation"],
  [idiom |-> <<"t", "h", "e", " ", "l", "a", "s", "t", " ", "s", "t", "r", "a", "w">>,
   literal |-> "the final problem"],
  [idiom |-> <<"t", "h", "a", "t", " ", "s", "h", "i", "p", " ", "h", "a", "s", " ",
               "s", "a", "i", "l", "e", "d">>,
   literal |-> "that opportunity is gone"],
  [idiom |-> <<"t", "h", "r", "o", "w", " ", "i", "n", " ", "t", "h", "e", " ", "t",
               "o", "w", "e", "l">>,
   literal |-> "give up"],
  [idiom |-> <<"u", "n", "d", "e", "r", " ", "t", "h", "e", " ", "w", "e", "a", "t",
               "h", "e", "r">>,
   literal |-> "feeling sick"],
  [idiom |-> <<"w", "h", "o", "l", "e", " ", "n", "i", "n", "e", " ", "y", "a", "r",
               "d", "s">>,
   literal |-> "everything"],
  [idiom |-> <<"w", "o", "u", "l", "d", "n", "'", "t", " ", "b", "e", " ", "c", "a",
               "u", "g", "h", "t", " ", "d", "e", "a", "d">>,
   literal |-> "would never like to do something"],
  [idiom |-> <<"y", "o", "u", " ", "c", "a", "n", " ", "s", "a", "y", " ", "t", "h",
               "a", "t", " ", "a", "g", "a", "i", "n">>,
   literal |-> "I agree completely"],
  [idiom |-> <<"y", "o", "u", "r", " ", "g", "u", "e", "s", "s", " ", "i", "s", " ",
               "a", "s", " ", "g", "o", "o", "d", " ", "a", "s", " ", "m", "i", "n",
               "e">>,
   literal |-> "I do not know the answer"]
>>

\* Object.entries(idioms).sort((a, b) => b[0].length - a[0].length): the sort
\* is stable, entries of one length keep the order of the dictionary
LongestKey(entries) ==
  IF entries = <<>> THEN 0
  ELSE CHOOSE n \in {Len(entries[i].idiom) : i \in DOMAIN entries} :
         \A i \in DOMAIN entries : Len(entries[i].idiom) <= n

\* the entries whose keys have the lengths given, in the order of the lengths
RECURSIVE EntriesOfLengths(_, _)
EntriesOfLengths(entries, lengths) ==
  LET HasLength(e) == Len(e.idiom) = Head(lengths) IN
  IF lengths = <<>> THEN <<>>
  ELSE SelectSeq(entries, HasLength) \o EntriesOfLengths(entries, Tail(lengths))

sortedIdiomsShortestFirst(idioms) ==
  LET longest == LongestKey(idioms) IN
  EntriesOfLengths(idioms, [k \in 1..(longest + 1) |-> k - 1])

sortedIdioms(idioms) ==
  LET longest == LongestKey(idioms) IN
  EntriesOfLengths(idioms, [k \in 1..(longest + 1) |-> longest + 1 - k])

fallbackIdiomDetection(idioms, sentence) ==
  IF Len(idioms) = 0
  THEN [hasIdiom |-> FALSE]
  ELSE LET lowerSentence == toLowerCase(sentence)
           Found(e) == includes(lowerSentence, toLowerCase(e.idiom))
           found == SelectSeq(sortedIdioms(idioms), Found)
       IN IF found = <<>>
          THEN [hasIdiom |-> FALSE]
          ELSE [hasIdiom |-> TRUE, idiom |-> found[1].idiom,
                literal |-> found[1].literal]

\* ------------------------------------------- idiom spans in the document
\* An element the idiom scan visits is the sequence of the text nodes and
\* idiom spans under it, in document order, with the class
\* cogniread-has-idioms or without it; source is the text it was written with.
MinElementLength == 15
MinSentenceLength == 10

TextNode(t) == [span |-> FALSE, text |-> t, idiom |-> Undefined]

\* <span class="cogniread-idiom-phrase" data-idiom=actual>actual</span>
IdiomSpan(actual) == [span |-> TRUE, text |-> actual, idiom |-> actual]

Element(t) ==
  [nodes |-> IF t = <<>> THEN <<>> ELSE <<TextNode(t)>>,
   hasIdioms |-> FALSE, source |-> t]

\* Node.textContent of an element
RECURSIVE nodesText(_)
nodesText(nodes) ==
  IF nodes = <<>> THEN <<>> ELSE Head(nodes).text \o nodesText(Tail(nodes))

\* String.prototype.indexOf
indexOf(s, t) ==
  IF includes(s, t)
  THEN (CHOOSE i \in 1..(Len(s) - Len(t) + 1) :
          /\ SubSeq(s, i, i + Len(t) - 1) = t
          /\ \A k \in 1..(i - 1) : SubSeq(s, k, k + Len(t) - 1) # t) - 1
  ELSE -1

\* String.prototype.substring, for 0 <= from <= to
substring(s, from, to) ==
  LET end == IF to > Len(s) THEN Len(s) ELSE to IN SubSeq(s, from + 1, end)

\* what wrapIdiomInTextNodes puts in the place of one text node
WrapTextNode(n, idiom) ==
  LET text  == n.text
      index == indexOf(toLowerCase(text), toLowerCase(idiom))
  IN
  IF n.span \/ index = -1 THEN <<n>>
  ELSE LET actualIdiom == substring(text, index, index + Len(idiom))
           before == substring(text, 0, index)
           after  == substring(text, index + Len(idiom), Len(text))
       IN (IF before # <<>> THEN <<TextNode(before)>> ELSE <<>>)
          \o <<IdiomSpan(actualIdiom)>>
          \o (IF after # <<>> THEN <<TextNode(after)>> ELSE <<>>)

\* wrapIdiomInTextNodes: in every text node that is outside an idiom span,
\* the first occurrence of the idiom
RECURSIVE wrapIdiomInTextNodes(_, _)
wrapIdiomInTextNodes(nodes, idiom) ==
  IF nodes = <<>> THEN <<>>
  ELSE WrapTextNode(Head(nodes), idiom) \o wrapIdiomInTextNodes(Tail(nodes), idiom)

\* text.match(/[^.!?]+[.!?]+|[^.!?]+/g) || [text]
Terminators == {".", "!", "?"}

RunLength(t, terminator) ==
  CHOOSE n \in 0..Len(t) :
    /\ \A i \in 1..n : (t[i] \in Terminators) = terminator
    /\ n < Len(t) => (t[n + 1] \in Terminators) # terminator

RECURSIVE matchSentences(_)
matchSentences(t) ==
  IF t = <<>> THEN <<>>
  ELSE LET a == RunLength(t, FALSE) IN
       IF a = 0 THEN matchSentences(Tail(t))
       ELSE LET b == RunLength(SubSeq(t, a + 1, Len(t)), TRUE) IN
            <<SubSeq(t, 1, a + b)>> \o matchSentences(SubSeq(t, a + b + 1, Len(t)))

sentencesOf(text) ==
  IF matchSentences(text) = <<>> THEN <<text>> ELSE matchSentences(text)

\* the idioms convertIdiomsToLiteral collects for an element, one for each
\* sentence of at least MinSentenceLength characters in which the dictionary
\* scan finds one
RECURSIVE idiomSpans(_)
idiomSpans(sentences) ==
  IF sentences = <<>> THEN <<>>
  ELSE LET trimmedSentence == trim(Head(sentences))
           result == fallbackIdiomDetection(IDIOMS_DICTIONARY, trimmedSentence)
       IN (IF Len(trimmedSentence) >= MinSentenceLength /\ result.hasIdiom
           THEN <<result.idiom>> ELSE <<>>)
          \o idiomSpans(Tail(sentences))

RECURSIVE WrapEach(_, _)
WrapEach(nodes, idioms) ==
  IF idioms = <<>> THEN nodes
  ELSE WrapEach(wrapIdiomInTextNodes(nodes, Head(idioms)), Tail(idioms))

\* the body of the loop of convertIdiomsToLiteral for one element
ScanElement(el) ==
  LET text == trim(nodesText(el.nodes)) IN
  IF Len(text) < MinElementLength THEN el
  ELSE LET found == idiomSpans(sentencesOf(text)) IN
       IF found = <<>> THEN el
       ELSE [el EXCEPT !.nodes = WrapEach(@, found), !.hasIdioms = TRUE]

\* showTLDR, for one <li> of the summary: the spans are made, the class
\* cogniread-has-idioms is not added
ScanSummaryItem(el) ==
  LET text == trim(nodesText(el.nodes)) IN
  IF Len(text) >= MinElementLength
  THEN LET result == fallbackIdiomDetection(IDIOMS_DICTIONARY, text) IN
       IF result.hasIdiom
       THEN [el EXCEPT !.nodes = wrapIdiomInTextNodes(@, result.idiom)]
       ELSE el
  ELSE el

\* restoreOriginalText, for one element: only an element with the class
\* cogniread-has-idioms is looked at
UnwrapElement(el) ==
  IF el.hasIdioms
  THEN [el EXCEPT !.nodes = [i \in DOMAIN @ |->
                               IF @[i].span THEN TextNode(@[i].idiom) ELSE @[i]],
                  !.hasIdioms = FALSE]
  ELSE el

\* convertIdiomsToLiteral: the <li> of the TL;DR containers lie in the main
\* container and are scanned like the headings
convertIdiomsToLiteral(w, v) ==
  [lit  |-> [i \in DOMAIN w |-> ScanElement(w[i])],
   view |-> [v EXCEPT !.tldr = [c \in DOMAIN @ |->
                                  [i \in DOMAIN @[c] |-> ScanElement(@[c][i])]]]]

\* restoreOriginalText: document.querySelectorAll('.cogniread-has-idioms')
restoreOriginalText(w, v) ==
  [lit  |-> [i \in DOMAIN w |-> UnwrapElement(w[i])],
   view |-> [v EXCEPT !.tldr = [c \in DOMAIN @ |->
                                  [i \in DOMAIN @[c] |-> UnwrapElement(@[c][i])]]]]

\* ----------------------------------------------------------------- Init
SvcIdle  == [on |-> FALSE]
CalcIdle == [on |-> FALSE]

\* a page of paragraphs only
NoHeadings == <<>>

\* headings of a page: one sentence with an idiom in other letter case, two
\* sentences with the same idiom, a sentence without one
LastStrawHeading ==
  <<"T", "h", "a", "t", " ", "w", "a", "s", " ", "t", "h", "e", " ", "L",
  "A", "S", "T", " ", "s", "t", "r", "a", "w", ".">>
TwiceHeading ==
  <<"I", "t", " ", "w", "a", "s", " ", "t", "h", "e", " ", "l", "a", "s",
  "t", " ", "s", "t", "r", "a", "w", ".", " ", "T", "r", "u", "l", "y",
  " ", "T", "h", "e", " ", "L", "a", "s", "t", " ", "S", "t", "r", "a",
  "w", "!">>
WeatherHeading ==
  <<"L", "o", "v", "e", "l", "y", " ", "w", "e", "a", "t", "h", "e", "r",
  " ", "t", "o", "d", "a", "y", ".">>

HeadingTexts == {LastStrawHeading, TwiceHeading, WeatherHeading}

NumHeadings == 2

\* the <li> texts formatSummaryAsList makes of a summary
Summaries ==
  {<<<<"I", "t", " ", "w", "a", "s", " ", "t", "h", "e", " ", "l", "a", "s",
      "t", " ", "s", "t", "r", "a", "w", " ", "f", "o", "r", " ", "t", "h",
      "e", "m">>>>,
   <<<<"T", "h", "e", " ", "w", "e", "a", "t", "h", "e", "r", " ", "s", "t",
      "a", "y", "s", " ", "l", "o", "v", "e", "l", "y">>>>}

\* ------------------------------------------- background service worker
NumTabs == 1
MaxInjections == 2   \* invocations of injectContentScripts per tab
MaxNavigations == 1   \* page loads per tab after the first

Tabs == 1..NumTabs

\* the awaited chrome.scripting calls of injectContentScripts, in order
InjectionSteps ==
  <<"showLoadingIndicator", "styles.css", "idioms-dictionary.js", "ai-service.js",
    "cognitive-engine.js", "prompt-api-service.js", "content.js">>

ContentScripts == {InjectionSteps[k] : k \in DOMAIN InjectionSteps}

NoResponse == [action |-> "none", tabId |-> 0]

\* the service worker when it starts: activeTabs = new Set(); injections are
\* the invocations of injectContentScripts suspended in an awaited call,
\* cleanups the tabs whose 'cleanup' message awaits its callback, response
\* the argument of the last sendResponse; started is history: how many
\* times injectContentScripts was called for each tab
BackgroundAtStart ==
  [activeTabs |-> {}, injections |-> <<>>, cleanups |-> {},
   response |-> NoResponse, started |-> [t \in Tabs |-> 0]]

\* a tab showing a page nothing was injected into
EmptyDocument == [f \in ContentScripts |-> 0]

TabsAtStart ==
  [t \in Tabs |-> [open |-> TRUE, navigations |-> 0, injected |-> EmptyDocument]]

\* what the background script and the browser's tabs never touch
page == <<dom, state, ui, pipes, view, svc, calc, lit, pristine, last, failures>>

\* injectContentScripts(tabId) up to its first await
injectContentScripts(b, tabId, from) ==
  [b EXCEPT !.injections = Append(@, [tabId |-> tabId, step |-> 1, from |-> from]),
            !.started[tabId] = @ + 1]

\* chrome.runtime.onMessage, request.action === 'activateOnTab' (the popup is
\* opened over an open tab)
ActivateOnTab(tabId) ==
  /\ tabs[tabId].open
  /\ IF tabId \in background.activeTabs
     THEN background' = [background EXCEPT !.response =
                           [action |-> "activateOnTab", tabId |-> tabId,
                            success |-> FALSE]]
     ELSE /\ background.started[tabId] < MaxInjections
          /\ background' = injectContentScripts(background, tabId, "popup")
  /\ UNCHANGED <<tabs, page, promptAPI, reader>>

\* chrome.contextMenus.onClicked, info.menuItemId === 'cogniread-activate'
ContextMenuActivate(tabId) ==
  /\ tabs[tabId].open
  /\ background.started[tabId] < MaxInjections
  /\ background' = injectContentScripts(background, tabId, "menu")
  /\ UNCHANGED <<tabs, page, promptAPI, reader>>

\* the .then of the caller of injectContentScripts
InjectionResolved(b, j) ==
  LET inv == b.injections[j] IN
  [b EXCEPT !.activeTabs = @ \cup {inv.tabId},
            !.injections = RemoveAt(@, j),
            !.response = IF inv.from = "popup"
                         THEN [action |-> "activateOnTab", tabId |-> inv.tabId,
                               success |-> TRUE]
                         ELSE @]

\* the awaited chrome.scripting call of invocation j resolves: the script is
\* in the document the tab shows now; after the last one the caller's .then
\* runs
InjectionStepResolves(j) ==
  /\ j \in DOMAIN background.injections
  /\ LET inv == background.injections[j] IN
     /\ tabs[inv.tabId].open
     /\ tabs' = [tabs EXCEPT ![inv.tabId].injected[InjectionSteps[inv.step]] = @ + 1]
     /\ background' = IF inv.step < Len(InjectionSteps)
                      THEN [background EXCEPT !.injections[j].step = @ + 1]
                      ELSE InjectionResolved(background, j)
  /\ UNCHANGED <<page, promptAPI, reader>>

\* the awaited call rejects (the tab is gone, the page cannot be scripted):
\* injectContentScripts rethrows, the caller's .catch runs
InjectionStepRejects(j) ==
  /\ j \in DOMAIN background.injections
  /\ LET inv == background.injections[j] IN
     background' = [background EXCEPT
                      !.injections = RemoveAt(@, j),
                      !.response = IF inv.from = "popup"
                                   THEN [action |-> "activateOnTab",
                                         tabId |-> inv.tabId, success |-> FALSE]
                                   ELSE @]
  /\ UNCHANGED <<tabs, page, promptAPI, reader>>

\* request.action === 'deactivateOnTab' up to chrome.tabs.sendMessage
DeactivateOnTab(tabId) ==
  /\ tabs[tabId].open
  /\ background' = IF tabId \notin background.activeTabs
                   THEN [background EXCEPT !.response =
                           [action |-> "deactivateOnTab", tabId |-> tabId,
                            success |-> FALSE]]
                   ELSE [background EXCEPT !.cleanups = @ \cup {tabId}]
  /\ UNCHANGED <<tabs, page, promptAPI, reader>>

\* the callback of the 'cleanup' message
CleanupAnswered(tabId) ==
  /\ tabId \in background.cleanups
  /\ background' = [background EXCEPT
                      !.activeTabs = @ \ {tabId},
                      !.cleanups = @ \ {tabId},
                      !.response = [action |-> "deactivateOnTab", tabId |-> tabId,
                                    success |-> TRUE]]
  /\ UNCHANGED <<tabs, page, promptAPI, reader>>

\* request.action === 'checkActivation'
CheckActivation(tabId) ==
  /\ background' = [background EXCEPT !.response =
                      [action |-> "checkActivation", tabId |-> tabId,
                       isActivated |-> tabId \in background.activeTabs]]
  /\ UNCHANGED <<tabs, page, promptAPI, reader>>

\* the tab is closed: chrome.tabs.onRemoved
TabRemoved(tabId) ==
  /\ tabs[tabId].open
  /\ tabs' = [tabs EXCEPT ![tabId].open = FALSE, ![tabId].injected = EmptyDocument]
  /\ background' = [background EXCEPT !.activeTabs = @ \ {tabId}]
  /\ UNCHANGED <<page, promptAPI, reader>>

\* the tab loads another page: chrome.tabs.onUpdated with status 'loading'
TabNavigates(tabId) ==
  /\ tabs[tabId].open
  /\ tabs[tabId].navigations < MaxNavigations
  /\ tabs' = [tabs EXCEPT ![tabId].navigations = @ + 1,
                          ![tabId].injected = EmptyDocument]
  /\ background' = IF tabId \in background.activeTabs
                   THEN [background EXCEPT !.activeTabs = @ \ {tabId}]
                   ELSE background
  /\ UNCHANGED <<page, promptAPI, reader>>

\* ------------------------------------------------------ PromptAPIService
MaxPrompts == 2   \* calls of prompt() and promptStreaming()
MaxChunks == 2   \* chunks of one stream

PromptCalls    == 1..MaxPrompts
PromptSessions == 1..MaxPrompts

\* what LanguageModel.availability() may answer; "undefined": there is no
\* global LanguageModel; "throws": availability() rejected
AvailabilityOutcomes ==
  {"readily", "available", "after-download", "downloading", "unavailable",
   "undefined", "throws"}

NoPrompt == [pc |-> "idle", method |-> "none", session |-> 0, chunks |-> 0,
             settled |-> "no"]

\* the service after its constructor, checkAvailability under way; created
\* counts the sessions LanguageModel.create resolved with and destroys the
\* calls of destroy() on each of them
PromptAPIAtStart ==
  [isAvailable |-> FALSE, availabilityStatus |-> "null", checking |-> TRUE,
   created |-> 0, destroys |-> [id \in PromptSessions |-> 0],
   calls |-> [c \in PromptCalls |-> NoPrompt]]

\* checkAvailability, from `await LanguageModel.availability(...)` on
checkAvailability(pa, outcome) ==
  IF outcome \in {"undefined", "throws"}
  THEN [pa EXCEPT !.isAvailable = FALSE, !.checking = FALSE]
  ELSE [pa EXCEPT !.availabilityStatus = outcome,
                  !.isAvailable = outcome \in {"readily", "after-download", "available"},
                  !.checking = FALSE]

AvailabilityChecked(outcome) ==
  /\ promptAPI.checking
  /\ promptAPI' = checkAvailability(promptAPI, outcome)
  /\ UNCHANGED <<page, background, tabs, reader>>

\* the finally block of prompt() and promptStreaming() that destroys the
\* session only when the call succeeded
destroyOnSuccess(pa, c, settled) ==
  LET id == pa.calls[c].session IN
  [pa EXCEPT !.calls[c].pc = "done", !.calls[c].settled = settled,
             !.destroys = IF id # 0 /\ settled = "resolved"
                          THEN [@ EXCEPT ![id] = @ + 1] ELSE @]

\* the finally block of prompt() and promptStreaming(): if (session)
\* session.destroy(); then the call settles
destroyAndSettle(pa, c, settled) ==
  LET id == pa.calls[c].session IN
  [pa EXCEPT !.calls[c].pc = "done", !.calls[c].settled = settled,
             !.destroys = IF id # 0 THEN [@ EXCEPT ![id] = @ + 1] ELSE @]

\* prompt(userPrompt, systemPrompt) and promptStreaming(...) up to the await
\* of LanguageModel.create in createSession
BeginPrompt(c, method) ==
  /\ promptAPI.calls[c].pc = "idle"
  /\ promptAPI' =
       IF ~promptAPI.isAvailable
       THEN [promptAPI EXCEPT !.calls[c] = [NoPrompt EXCEPT !.pc = "done",
                                                            !.method = method,
                                                            !.settled = "rejected"]]
       ELSE [promptAPI EXCEPT !.calls[c] = [NoPrompt EXCEPT !.pc = "create",
                                                            !.method = method]]
  /\ UNCHANGED <<page, background, tabs, reader>>

\* LanguageModel.create resolved: session.prompt or session.promptStreaming
\* is called on the new session
CreateResolves(c) ==
  /\ promptAPI.calls[c].pc = "create"
  /\ LET id == promptAPI.created + 1 IN
     promptAPI' = [promptAPI EXCEPT
                     !.created = id,
                     !.calls[c].session = id,
                     !.calls[c].pc = IF promptAPI.calls[c].method = "prompt"
                                     THEN "prompt" ELSE "openStream"]
  /\ UNCHANGED <<page, background, tabs, reader>>

\* LanguageModel.create rejected: createSession rethrows, session is null
CreateRejects(c) ==
  /\ promptAPI.calls[c].pc = "create"
  /\ promptAPI' = destroyAndSettle(promptAPI, c, "rejected")
  /\ UNCHANGED <<page, background, tabs, reader>>

\* session.prompt resolved or rejected
SessionPromptSettles(c, settled) ==
  /\ promptAPI.calls[c].pc = "prompt"
  /\ promptAPI' = destroyAndSettle(promptAPI, c, settled)
  /\ UNCHANGED <<page, background, tabs, reader>>

\* session.promptStreaming resolved with a stream
StreamOpens(c) ==
  /\ promptAPI.calls[c].pc = "openStream"
  /\ promptAPI' = [promptAPI EXCEPT !.calls[c].pc = "stream"]
  /\ UNCHANGED <<page, background, tabs, reader>>

\* one turn of `for await (const chunk of stream)`: onChunk may throw
ChunkArrives(c, callbackThrows) ==
  /\ promptAPI.calls[c].pc = "stream"
  /\ promptAPI.calls[c].chunks < MaxChunks
  /\ promptAPI' =
       IF callbackThrows
       THEN destroyAndSettle([promptAPI EXCEPT !.calls[c].chunks = @ + 1], c, "rejected")
       ELSE [promptAPI EXCEPT !.calls[c].chunks = @ + 1]
  /\ UNCHANGED <<page, background, tabs, reader>>

\* the stream ended (resolved), or it or session.promptStreaming failed
StreamSettles(c, settled) ==
  /\ promptAPI.calls[c].pc \in {"openStream", "stream"}
  /\ settled = "resolved" => promptAPI.calls[c].pc = "stream"
  /\ promptAPI' = destroyAndSettle(promptAPI, c, settled)
  /\ UNCHANGED <<page, background, tabs, reader>>

\* ---------------------------------------------------- DistractionFreeMode
NumBodyChildren == 2   \* children of document.body when the page was loaded
MaxReaderViews == 2   \* reader containers created

PageChildren == 1..NumBodyChildren
BodyElements == 1..(NumBodyChildren + MaxReaderViews)

\* the statements of the try block of activate(), in order
ActivateSteps ==
  <<"originalContent", "findMainContent", "createReaderView", "sanitizeContent",
    "enhanceReadability", "contentContainer.appendChild", "hideChildren",
    "body.appendChild", "addControls", "addReadingProgress">>

\* the instance after its constructor and the panel's toggle for it.  body
\* gives, for each element, whether it is a child of document.body, its
\* style.display and whether it holds the exit button; readerContainer and
\* originalContent are 0 and NoOriginalContent for null.  History: the body when
\* activate() was last entered (before), how that call ended (outcome), how
\* many containers were created (created)
NoOriginalContent == [stored |-> FALSE, children |-> {}]

BodyAtLoad ==
  [e \in BodyElements |-> [inBody |-> e \in PageChildren, display |-> "",
                           controls |-> FALSE]]

ReaderAtStart ==
  [isActive |-> FALSE, originalContent |-> NoOriginalContent, readerContainer |-> 0,
   showProgress |-> TRUE, theme |-> "light", toggleActive |-> FALSE,
   distractionFree |-> FALSE, body |-> BodyAtLoad, before |-> BodyAtLoad, outcome |-> "none", created |-> 0]

BodyChildrenOf(r) == {e \in BodyElements : r.body[e].inBody}

\* deactivate()
deactivate(r) ==
  IF ~r.isActive THEN r
  ELSE LET removed == IF r.readerContainer # 0
                      THEN [r.body EXCEPT ![r.readerContainer].inBody = FALSE]
                      ELSE r.body
           shown   == IF r.originalContent.stored
                      THEN [e \in BodyElements |->
                              IF e \in r.originalContent.children
                              THEN [removed[e] EXCEPT !.display = ""] ELSE removed[e]]
                      ELSE removed
       IN [r EXCEPT !.body = shown, !.readerContainer = 0,
                    !.originalContent = NoOriginalContent, !.isActive = FALSE,
                    !.distractionFree = IF r.toggleActive THEN FALSE ELSE @,
                    !.toggleActive = FALSE]

\* one statement of the try block
ActivateStep(r, step) ==
  CASE step = "originalContent" ->
         [r EXCEPT !.originalContent = [stored |-> TRUE, children |-> BodyChildrenOf(r)]]
    [] step = "createReaderView" ->
         [r EXCEPT !.readerContainer = NumBodyChildren + r.created + 1,
                   !.created = @ + 1]
    [] step = "hideChildren" ->
         [r EXCEPT !.body = [e \in BodyElements |->
                               IF e \in r.originalContent.children
                               THEN [r.body[e] EXCEPT !.display = "none"]
                               ELSE r.body[e]]]
    [] step = "body.appendChild" ->
         [r EXCEPT !.body[r.readerContainer].inBody = TRUE,
                   !.body[r.readerContainer].display = ""]
    [] step = "addControls" ->
         [r EXCEPT !.body[r.readerContainer].controls = TRUE]
    [] OTHER -> r

\* the try block from statement k on: statement throwAt throws (0: none
\* does), findMainContent finds the main content or returns null
RECURSIVE ActivateFrom(_, _, _, _)
ActivateFrom(r, k, found, throwAt) ==
  IF k > Len(ActivateSteps)
  THEN [r EXCEPT !.isActive = TRUE, !.outcome = "activated"]
  ELSE IF k = throwAt
  THEN deactivate([r EXCEPT !.outcome = "failed"])
  ELSE IF ActivateSteps[k] = "findMainContent" /\ ~found
  THEN [r EXCEPT !.outcome = "noContent"]
  ELSE IF ActivateSteps[k] = "addReadingProgress" /\ ~r.showProgress
  THEN ActivateFrom(r, k + 1, found, throwAt)
  ELSE ActivateFrom(ActivateStep(r, ActivateSteps[k]), k + 1, found, throwAt)

\* activate()
activate(r, found, throwAt) ==
  IF r.isActive THEN r
  ELSE ActivateFrom([r EXCEPT !.before = r.body], 1, found, throwAt)

\* toggleDistractionFreeMode(enabled)
toggleDistractionFreeMode(r, enabled, found, throwAt) ==
  LET r1 == [r EXCEPT !.distractionFree = enabled] IN
  IF enabled THEN activate(r1, found, throwAt)
  ELSE [deactivate(r1) EXCEPT !.outcome = "none"]

\* 'click' on #cogniread-distraction-free-toggle
DistractionFreeToggleClick(found, throwAt) ==
  /\ ~reader.toggleActive => reader.created < MaxReaderViews
  /\ LET isActive == ~reader.toggleActive IN
     reader' = toggleDistractionFreeMode([reader EXCEPT !.toggleActive = isActive],
                                         isActive, found, throwAt)
  /\ UNCHANGED <<page, background, tabs, promptAPI>>

\* 'click' on the exit button of a reader container that is in the page
ExitButtonClick ==
  /\ \E e \in BodyChildrenOf(reader) :
       reader.body[e].controls /\ reader.body[e].display = ""
  /\ reader' = [deactivate(reader) EXCEPT !.outcome = "none"]
  /\ UNCHANGED <<page, background, tabs, promptAPI>>

\* 'click' on the theme button of a reader container that is in the page
ThemeToggleClick ==
  /\ \E e \in BodyChildrenOf(reader) :
       reader.body[e].controls /\ reader.body[e].display = ""
  /\ reader' = [reader EXCEPT !.theme = IF @ = "light" THEN "dark" ELSE "light",
                              !.outcome = "none"]
  /\ UNCHANGED <<page, background, tabs, promptAPI>>

OthersAtRest ==
  /\ background = BackgroundAtStart
  /\ tabs = TabsAtStart
  /\ promptAPI = PromptAPIAtStart
  /\ reader = ReaderAtStart

NoStep == [ev |-> "load", kind |-> "none", p |-> 0]

FreshNode(html) ==
  [innerHTML |-> html, classList |-> {}, originalHTML |-> Undefined,
   originalText |-> Undefined, attached |-> TRUE]

\* the content script after construction, on a page just loaded
InitEngine ==
  /\ pristine \in [Paras -> PageParagraphs]
  /\ dom = [p \in Paras |-> FreshNode(pristine[p])]
  /\ state = [simplificationLevel |-> 0, expansionMode |-> FALSE,
              toneAdjustment |-> "off", activeVoice |-> FALSE,
              sentenceRestructuring |-> FALSE, dyslexiaMode |-> FALSE,
              focusMode |-> FALSE, tldrMode |-> FALSE, idiomMode |-> FALSE,
              \* analyzePage chunks the page when the extension starts
              contentChunks |-> chunkContent([p \in Paras |-> FreshNode(pristine[p])]),
              currentFocusIndex |-> 0]
  /\ ui = [slider |-> 0, toneSelect |-> "off", active |-> {},
           tldrDisabled |-> FALSE]
  /\ pipes = <<>>
  /\ view = [tldr |-> <<>>, tldrPending |-> 0, overlayHidden |-> TRUE,
             counterHidden |-> TRUE, contentHidden |-> TRUE,
             focusContent |-> Undefined, alert |-> FALSE, uiPresent |-> TRUE]
  /\ last = NoStep
  /\ failures = 0

Init ==
  /\ InitEngine
  /\ svc = SvcIdle
  /\ calc = CalcIdle
  /\ lit = NoHeadings
  /\ OthersAtRest

\* ------------------------------------------------------------- handlers
\* applySimplification(level), after the slider handler stored the level
applySimplification(level) ==
  LET r  == removeSimplification(dom, pipes)
      ps == IF level = 0 THEN r.pipes ELSE StartPipeline(r.pipes, r.dom, "simplify")
      \* nothing to await: the refresh of the focus chunk follows at once
      f  == IF level # 0 /\ ps = r.pipes THEN RefreshFocus(r.dom, view, state')
            ELSE [dom |-> r.dom, view |-> view]
  IN
  /\ dom' = f.dom
  /\ view' = f.view
  /\ pipes' = ps

\* 'input' on #cogniread-simplification-slider
SliderInput(level) ==
  /\ level # ui.slider
  /\ level > 0 => CanStart
  /\ state' = [state EXCEPT !.simplificationLevel = level]
  /\ ui' = [ui EXCEPT !.slider = level]
  /\ applySimplification(level)
  /\ last' = [ev |-> "slider", kind |-> "simplify", p |-> 0]
  /\ UNCHANGED <<aux, pristine, failures>>

\* toggleExpansionMode(enabled).  With simplification on, the enabling branch
\* reverses it and then dereferences getElementById('simplification-slider'),
\* an id the control panel does not have (the slider is
\* 'cogniread-simplification-slider'): the call throws before applyTextExpansion.
toggleExpansionMode(enabled) ==
  IF enabled
  THEN IF state.simplificationLevel > 0
       THEN LET r == removeSimplification(dom, pipes) IN
            /\ dom' = r.dom
            /\ view' = view
            /\ pipes' = r.pipes
            /\ state' = [state EXCEPT !.expansionMode = TRUE, !.simplificationLevel = 0]
       ELSE LET ps == StartPipeline(pipes, dom, "expand")
                f  == IF ps = pipes THEN RefreshFocus(dom, view, state)
                      ELSE [dom |-> dom, view |-> view]
            IN /\ dom' = f.dom
               /\ view' = f.view
               /\ pipes' = ps
               /\ state' = [state EXCEPT !.expansionMode = TRUE]
  ELSE LET r == removeExpansion(dom, pipes)
           f == RefreshFocus(r.dom, view, state)
       IN /\ dom' = f.dom
          /\ view' = f.view
          /\ pipes' = r.pipes
          /\ state' = [state EXCEPT !.expansionMode = FALSE]

\* the click handlers of the toggles: classList.toggle('active') gives isActive
ToggleActive(name) ==
  [ui EXCEPT !.active = IF name \in ui.active THEN ui.active \ {name}
                        ELSE ui.active \cup {name}]

\* 'click' on #cogniread-expansion-toggle
ExpansionToggleClick ==
  LET isActive == "expansion" \notin ui.active IN
  /\ isActive => CanStart
  /\ ui' = ToggleActive("expansion")
  /\ toggleExpansionMode(isActive)
  /\ last' = [ev |-> "toggle", kind |-> "expand", p |-> 0]
  /\ UNCHANGED <<aux, pristine, failures>>

\* applyToneAdjustment(tone): 'off' reverses; a tone starts a pipeline without
\* reversing the tone applied before
applyToneAdjustment(tone) ==
  IF tone = "off"
  THEN LET r == removeToneAdjustment(dom, pipes) IN
       /\ dom' = r.dom
       /\ pipes' = r.pipes
  ELSE /\ dom' = dom
       /\ pipes' = StartPipeline(pipes, dom, "tone")

\* 'change' on #cogniread-tone-select
ToneSelectChange(tone) ==
  /\ tone # ui.toneSelect
  /\ tone # "off" => CanStart
  /\ state' = [state EXCEPT !.toneAdjustment = tone]
  /\ ui' = [ui EXCEPT !.toneSelect = tone]
  /\ applyToneAdjustment(tone)
  /\ last' = [ev |-> "select", kind |-> "tone", p |-> 0]
  /\ UNCHANGED <<view, aux, pristine, failures>>

toggleActiveVoice(enabled) ==
  /\ state' = [state EXCEPT !.activeVoice = enabled]
  /\ IF enabled
     THEN /\ dom' = dom
          /\ pipes' = StartPipeline(pipes, dom, "activeVoice")
     ELSE LET r == removeActiveVoice(dom, pipes) IN
          /\ dom' = r.dom
          /\ pipes' = r.pipes

\* 'click' on #cogniread-active-voice-toggle
ActiveVoiceToggleClick ==
  LET isActive == "activeVoice" \notin ui.active IN
  /\ isActive => CanStart
  /\ ui' = ToggleActive("activeVoice")
  /\ toggleActiveVoice(isActive)
  /\ last' = [ev |-> "toggle", kind |-> "activeVoice", p |-> 0]
  /\ UNCHANGED <<view, aux, pristine, failures>>

toggleSentenceRestructuring(enabled) ==
  /\ state' = [state EXCEPT !.sentenceRestructuring = enabled]
  /\ IF enabled
     THEN /\ dom' = dom
          /\ pipes' = StartPipeline(pipes, dom, "restructure")
     ELSE LET r == removeSentenceRestructuring(dom, pipes) IN
          /\ dom' = r.dom
          /\ pipes' = r.pipes

\* 'click' on #cogniread-restructure-toggle
RestructureToggleClick ==
  LET isActive == "restructure" \notin ui.active IN
  /\ isActive => CanStart
  /\ ui' = ToggleActive("restructure")
  /\ toggleSentenceRestructuring(isActive)
  /\ last' = [ev |-> "toggle", kind |-> "restructure", p |-> 0]
  /\ UNCHANGED <<view, aux, pristine, failures>>

\* toggleDyslexiaMode(enabled): the flag and the class on <body> go together
\* 'click' on #cogniread-dyslexia-toggle
DyslexiaToggleClick ==
  LET isActive == "dyslexia" \notin ui.active IN
  /\ ui' = ToggleActive("dyslexia")
  /\ state' = [state EXCEPT !.dyslexiaMode = isActive]
  /\ last' = [ev |-> "toggle", kind |-> "dyslexia", p |-> 0]
  /\ UNCHANGED <<dom, pipes, view, aux, pristine, failures>>

\* a toggle that stored the flag and did nothing else
toggleFocusModeFlagOnly(enabled, u) ==
  /\ state' = [state EXCEPT !.focusMode = enabled]
  /\ ui' = u
  /\ dom' = dom
  /\ view' = view

\* toggleFocusMode(enabled), entered with the panel as the handler left it
toggleFocusMode(enabled, u) ==
  IF enabled
  THEN LET v1 == IF state.tldrMode THEN hideTLDR(view) ELSE view
           u1 == [u EXCEPT !.active = IF state.tldrMode THEN @ \ {"tldr"} ELSE @,
                           !.tldrDisabled = TRUE]
           chunks == chunkContent(dom)
           st1 == [state EXCEPT !.focusMode = TRUE, !.tldrMode = FALSE,
                                !.contentChunks = chunks, !.currentFocusIndex = 0]
           v2 == [v1 EXCEPT !.overlayHidden = FALSE, !.counterHidden = FALSE,
                            !.contentHidden = FALSE]
       IN
       IF Len(chunks) > 0
       THEN LET f == showFocusChunk(dom, v2, chunks, 0) IN
            /\ state' = st1
            /\ ui' = u1
            /\ dom' = f.dom
            /\ view' = [f.view EXCEPT !.alert = FALSE]
       ELSE \* alert('No readable content found on this page. ...')
            /\ state' = [st1 EXCEPT !.focusMode = FALSE]
            /\ ui' = u1
            /\ dom' = dom
            /\ view' = [v2 EXCEPT !.overlayHidden = TRUE, !.counterHidden = TRUE,
                                  !.alert = TRUE]
  ELSE /\ state' = [state EXCEPT !.focusMode = FALSE]
       /\ ui' = [u EXCEPT !.tldrDisabled = FALSE]
       /\ dom' = clearFocusMode(dom)
       /\ view' = [view EXCEPT !.overlayHidden = TRUE, !.counterHidden = TRUE,
                               !.contentHidden = TRUE, !.alert = FALSE]

\* 'click' on #cogniread-focus-mode-toggle; Ctrl+Shift+F does the same
FocusModeToggleClick ==
  LET isActive == "focus" \notin ui.active IN
  /\ toggleFocusMode(isActive, ToggleActive("focus"))
  /\ last' = [ev |-> "toggle", kind |-> "focus", p |-> 0]
  /\ UNCHANGED <<pipes, aux, pristine, failures>>

\* 'keydown' Escape while focus mode is on
EscapeKey ==
  /\ state.focusMode
  /\ toggleFocusMode(FALSE, [ui EXCEPT !.active = @ \ {"focus"}])
  /\ last' = [ev |-> "escape", kind |-> "focus", p |-> 0]
  /\ UNCHANGED <<pipes, aux, pristine, failures>>

\* nextFocusChunk without the test for the last chunk
nextFocusChunkUnbounded ==
  /\ state.focusMode
  /\ LET st1 == [state EXCEPT !.currentFocusIndex = @ + 1]
         f   == showFocusChunk(dom, view, st1.contentChunks, st1.currentFocusIndex)
     IN /\ state' = st1
        /\ dom' = f.dom
        /\ view' = f.view
  /\ last' = [ev |-> "next", kind |-> "focus", p |-> state.currentFocusIndex]
  /\ UNCHANGED <<ui, pipes, aux, pristine, failures>>

\* nextFocusChunk: click on the overlay, ArrowRight or Space in focus mode;
\* last.p keeps the index the step started from
nextFocusChunk ==
  /\ state.focusMode
  /\ IF state.currentFocusIndex < Len(state.contentChunks) - 1
     THEN LET st1 == [state EXCEPT !.currentFocusIndex = @ + 1]
              f   == showFocusChunk(dom, view, st1.contentChunks, st1.currentFocusIndex)
          IN /\ state' = st1
             /\ dom' = f.dom
             /\ view' = f.view
     ELSE UNCHANGED <<state, dom, view>>
  /\ last' = [ev |-> "next", kind |-> "focus", p |-> state.currentFocusIndex]
  /\ UNCHANGED <<ui, pipes, aux, pristine, failures>>

\* previousFocusChunk: ArrowLeft in focus mode
previousFocusChunk ==
  /\ state.focusMode
  /\ IF state.currentFocusIndex > 0
     THEN LET st1 == [state EXCEPT !.currentFocusIndex = @ - 1]
              f   == showFocusChunk(dom, view, st1.contentChunks, st1.currentFocusIndex)
          IN /\ state' = st1
             /\ dom' = f.dom
             /\ view' = f.view
     ELSE UNCHANGED <<state, dom, view>>
  /\ last' = [ev |-> "previous", kind |-> "focus", p |-> state.currentFocusIndex]
  /\ UNCHANGED <<ui, pipes, aux, pristine, failures>>

\* applyPlainLanguageTranslation rewrites the innerHTML of an element that
\* encloses <p> (an <li>, say): the <p> elements inside it leave the document
\* and new ones, of which no chunk knows, take their place
EnclosingElementRewritten(p) ==
  /\ dom[p].attached
  /\ dom' = [dom EXCEPT ![p].attached = FALSE]
  /\ last' = [ev |-> "rewritten", kind |-> "plainLanguage", p |-> p]
  /\ UNCHANGED <<state, ui, pipes, view, aux, pristine, failures>>

\* toggleTLDRMode(enabled) up to the first await of showTLDR
toggleTLDRMode(enabled) ==
  /\ state' = [state EXCEPT !.tldrMode = enabled]
  /\ view' = IF enabled THEN [view EXCEPT !.tldrPending = @ + 1] ELSE hideTLDR(view)

\* 'keydown' Ctrl+Shift+T; the click handler of #cogniread-tldr-toggle does
\* the same.  Neither looks at the class cogniread-toggle-disabled.
TLDRShortcut ==
  LET isActive == "tldr" \in ui.active IN
  /\ ~isActive => view.tldrPending < MaxTLDR
  /\ ui' = ToggleActive("tldr")
  /\ toggleTLDRMode(~isActive)
  /\ last' = [ev |-> "toggle", kind |-> "tldr", p |-> 0]
  /\ UNCHANGED <<dom, pipes, aux, pristine, failures>>

\* showTLDR resumes with the proofread summary and inserts the container
\* (summarizeText and proofreadText resolve whatever happens to the model)
SummaryReturns ==
  /\ view.tldrPending > 0
  /\ \E summary \in Summaries :
       LET items == [i \in DOMAIN summary |-> Element(summary[i])]
           tldrContainer ==
             IF state.idiomMode /\ "literal" \in ui.active
             THEN [i \in DOMAIN items |-> ScanSummaryItem(items[i])]
             ELSE items
       IN view' = [view EXCEPT !.tldrPending = @ - 1,
                               !.tldr = <<tldrContainer>> \o @]
  /\ last' = [ev |-> "summary", kind |-> "tldr", p |-> 0]
  /\ UNCHANGED <<dom, state, ui, pipes, aux, pristine, failures>>

\* toggleIdiomMode up to savePreferences: the scan of the page runs without
\* an await inside it
toggleIdiomMode(enabled) ==
  LET st1 == [state EXCEPT !.idiomMode = enabled]
      r   == IF enabled THEN convertIdiomsToLiteral(lit, view)
             ELSE restoreOriginalText(lit, view)
      f   == RefreshFocus(dom, r.view, st1)
  IN
  /\ state' = st1
  /\ lit' = r.lit
  /\ dom' = f.dom
  /\ view' = f.view

\* 'click' on #cogniread-literal-toggle
LiteralToggleClick ==
  LET isActive == "literal" \notin ui.active IN
  /\ ui' = ToggleActive("literal")
  /\ toggleIdiomMode(isActive)
  /\ last' = [ev |-> "toggle", kind |-> "literal", p |-> 0]
  /\ UNCHANGED <<pipes, svc, calc, others, pristine, failures>>

\* resetAllFeatures, in the order of its statements.  The branch for expansion
\* calls this.toggleExpansion, which class CogniRead does not define (the
\* method is toggleExpansionMode): with expansion on the call throws there and
\* nothing after it runs.  No branch stops a pipeline that is under way.
MarkReset(ps) == [j \in 1..Len(ps) |-> [ps[j] EXCEPT !.resetAt = Len(ps[j].issued)]]

resetAllFeatures ==
  LET \* toggleFocusMode(false), toggleTLDRMode(false), toggleDyslexiaMode(false)
      st1 == [state EXCEPT !.focusMode = FALSE, !.tldrMode = FALSE,
                           !.dyslexiaMode = FALSE]
      d0  == IF state.focusMode THEN clearFocusMode(dom) ELSE dom
      v0  == IF state.focusMode
             THEN [view EXCEPT !.overlayHidden = TRUE, !.counterHidden = TRUE,
                               !.contentHidden = TRUE, !.alert = FALSE]
             ELSE view
      ps0 == MarkReset(pipes)
  IN
  /\ view' = IF state.tldrMode THEN hideTLDR(v0) ELSE v0
  /\ ui' = [ui EXCEPT !.slider = 0, !.toneSelect = "off", !.active = {},
                      !.tldrDisabled = IF state.focusMode THEN FALSE ELSE @]
  /\ IF state.expansionMode
     THEN /\ state' = st1
          /\ dom' = d0
          /\ pipes' = ps0
     ELSE LET r1  == IF state.activeVoice THEN removeActiveVoice(d0, ps0)
                     ELSE [dom |-> d0, pipes |-> ps0]
              r2  == IF state.sentenceRestructuring
                     THEN removeSentenceRestructuring(r1.dom, r1.pipes) ELSE r1
              r3  == IF state.simplificationLevel > 0
                     THEN removeSimplification(r2.dom, r2.pipes) ELSE r2
              r4  == IF state.toneAdjustment # "off"
                     THEN removeToneAdjustment(r3.dom, r3.pipes) ELSE r3
          IN /\ state' = [st1 EXCEPT !.activeVoice = FALSE,
                                     !.sentenceRestructuring = FALSE,
                                     !.simplificationLevel = 0,
                                     !.toneAdjustment = "off"]
             /\ dom' = r4.dom
             /\ pipes' = r4.pipes

\* 'click' on #cogniread-escape-hatch, confirmed
EscapeHatchClick ==
  /\ resetAllFeatures
  /\ last' = [ev |-> "reset", kind |-> "none", p |-> 0]
  /\ UNCHANGED <<aux, pristine, failures>>

\* closeExtension, in the order of its statements: simplification, expansion,
\* focus mode, TL;DR and dyslexia mode are turned off, then the elements of
\* the extension are removed.  Tone, active voice and sentence restructuring
\* have no branch.
closeExtension ==
  LET r1 == IF state.simplificationLevel > 0 THEN removeSimplification(dom, pipes)
            ELSE [dom |-> dom, pipes |-> pipes]
      r2 == IF state.expansionMode THEN removeExpansion(r1.dom, r1.pipes) ELSE r1
      d3 == IF state.focusMode THEN clearFocusMode(r2.dom) ELSE r2.dom
      v3 == IF state.focusMode
            THEN [view EXCEPT !.overlayHidden = TRUE, !.counterHidden = TRUE,
                              !.contentHidden = TRUE, !.alert = FALSE]
            ELSE view
      v4 == IF state.tldrMode THEN hideTLDR(v3) ELSE v3
  IN
  /\ state' = [state EXCEPT !.simplificationLevel = 0, !.expansionMode = FALSE,
                            !.focusMode = FALSE, !.tldrMode = FALSE,
                            !.dyslexiaMode = FALSE]
  /\ dom' = d3
  /\ pipes' = r2.pipes
  /\ ui' = [ui EXCEPT !.tldrDisabled = IF state.focusMode THEN FALSE ELSE @]
  /\ view' = [v4 EXCEPT !.uiPresent = FALSE]

\* 'click' on the confirm button of the close dialog
CloseConfirmClick ==
  /\ view.uiPresent
  /\ closeExtension
  /\ last' = [ev |-> "close", kind |-> "none", p |-> 0]
  /\ UNCHANGED <<aux, pristine, failures>>

\* what follows the paragraph loop in the caller: applySimplification and
\* toggleExpansionMode refresh the focus chunk, the other callers do not
AfterLoop(ps, j, d) ==
  IF ps[j].i = Len(ps[j].paragraphs) /\ ps[j].kind \in {"simplify", "expand"}
  THEN RefreshFocus(d, view, state)
  ELSE [dom |-> d, view |-> view]

\* the pipeline of pipes[j] resumes: its awaited call returned `result`
CallReturns(j, result) ==
  /\ j \in 1..Len(pipes)
  /\ LET pipe == pipes[j]
         p    == pipe.paragraphs[pipe.i]
         d1   == [dom EXCEPT ![p] = WriteResult(dom[p], pipe.kind, pipe.originalText, result)]
         f    == AfterLoop(pipes, j, d1)
     IN /\ dom' = f.dom
        /\ view' = f.view
        /\ pipes' = Advance(pipes, j, d1)
        /\ last' = [ev |-> "returned", kind |-> pipe.kind, p |-> p]
  /\ UNCHANGED <<state, ui, aux, pristine, failures>>

\* ... or the awaited call threw
CallThrows(j) ==
  /\ j \in 1..Len(pipes)
  /\ failures < MaxFailures
  /\ failures' = failures + 1
  /\ LET pipe == pipes[j]
         p    == pipe.paragraphs[pipe.i]
         d1   == [dom EXCEPT ![p] = HandleFailure(dom[p], pipe.kind, pipe.originalText)]
         f    == AfterLoop(pipes, j, d1)
     IN /\ dom' = f.dom
        /\ view' = f.view
        /\ pipes' = Advance(pipes, j, d1)
        /\ last' = [ev |-> "threw", kind |-> pipe.kind, p |-> p]
  /\ UNCHANGED <<state, ui, aux, pristine>>

\* ------------------------------------------------------------- AIService
\* The service holds a language model session, a rewriter and a summarizer,
\* each possibly absent.  A session has an id; inputUsage of the sessions is
\* kept per id, against an inputQuota of 20 units (18: 90%, 19: 95%).
InputQuota == 20
UsageValues == {0, 18, 19, 20}
QuotaThreshold == 95

Sessions == 1..MaxSessions
Calls == 1..MaxCalls

LMOnlyMethods == {"simplifyText", "expandText", "explainTerm", "explainIdiom",
                  "detectAndConvertIdiom"}
RewriterFirstMethods == {"adjustTone", "adjustToneEncouraging"}
LMFirstMethods == {"convertToActiveVoice", "restructureSentences"}
Methods == {"summarizeText"} \cup LMOnlyMethods \cup RewriterFirstMethods
             \cup LMFirstMethods

NoCall ==
  [method |-> "none", pc |-> "idle", literal |-> FALSE, absent |-> FALSE,
   threw |-> FALSE, rewritten |-> FALSE, succeeded |-> {}, startSession |-> 0,
   startedHigh |-> FALSE, sentOn |-> 0, result |-> "none"]

\* percentUsed >= 95, with percentUsed = (usage / quota) * 100
NearlyExhausted(usage) == usage * 100 >= QuotaThreshold * InputQuota

Finish(call, result) == [call EXCEPT !.pc = "done", !.result = result]

\* what a method returns once no model is left to try
LocalFallback(call) ==
  IF call.method = "explainIdiom" /\ call.literal
  THEN Finish(call, "literalMeaning")     \* literalMeaning || fallbackIdiomExplanation(idiom)
  ELSE Finish(call, "fallback")

\* `await this.checkSessionQuota()` up to its first await, for call c: at 95%
\* reinitializeLanguageModel starts by destroying the session
EnterLM(sv, c) ==
  LET lm   == sv.languageModel
      high == NearlyExhausted(sv.usage[lm])
      call == [sv.calls[c] EXCEPT !.startSession = lm, !.startedHigh = high,
                                  !.pc = IF high THEN "lmDestroy" ELSE "lmCheck"]
  IN [sv EXCEPT !.calls[c] = call,
                !.destroyed = IF high THEN @ \cup {lm} ELSE @]

\* the rewriter stage, for call c
EnterRewriter(sv, c) == [sv EXCEPT !.calls[c].pc = "rewrite"]

\* a language model stage without its catch: the error leaves the method
AfterLMFailsRethrows(sv, c, errorName) ==
  [sv EXCEPT !.calls[c] = Finish([@ EXCEPT !.threw = TRUE], "rejected")]

\* the catch of the language model stage
AfterLMFails(sv, c, errorName) ==
  LET call == [sv.calls[c] EXCEPT !.threw = TRUE] IN
  IF call.method \in LMFirstMethods
  THEN IF sv.rewriter
       THEN EnterRewriter([sv EXCEPT !.calls[c] = call], c)
       ELSE [sv EXCEPT !.calls[c] = LocalFallback(call)]
  ELSE IF call.method \in RewriterFirstMethods /\ call.rewritten
  THEN [sv EXCEPT !.calls[c] = Finish(call, "rewriter")]   \* the casual version
  ELSE IF call.method = "detectAndConvertIdiom" /\ errorName = "AbortError"
  THEN [sv EXCEPT !.calls[c] = Finish(call, "noIdiom")]    \* { hasIdiom: false }
  ELSE [sv EXCEPT !.calls[c] = LocalFallback(call)]

\* the catch of the rewriter stage
AfterRewriterFails(sv, c) ==
  LET call == [sv.calls[c] EXCEPT !.threw = TRUE]
      sv1  == [sv EXCEPT !.calls[c] = call]
  IN IF call.method \in RewriterFirstMethods /\ sv.languageModel # 0
     THEN EnterLM(sv1, c)
     ELSE [sv EXCEPT !.calls[c] = LocalFallback(call)]

\* a method is called: its synchronous head
BeginCall(c, method, literal) ==
  /\ svc.calls[c].pc \in {"idle", "done"}
  /\ LET call == [NoCall EXCEPT !.method = method, !.literal = literal]
         sv   == [svc EXCEPT !.calls[c] = call]
         none == [svc EXCEPT !.calls[c] = LocalFallback([call EXCEPT !.absent = TRUE])]
     IN svc' =
          IF method = "summarizeText"
          THEN IF svc.summarizer THEN [sv EXCEPT !.calls[c].pc = "summarize"] ELSE none
          ELSE IF method \in LMOnlyMethods
          THEN IF svc.languageModel # 0 THEN EnterLM(sv, c) ELSE none
          ELSE IF method \in RewriterFirstMethods
          THEN IF svc.rewriter THEN EnterRewriter(sv, c)
               ELSE IF svc.languageModel # 0
               THEN EnterLM([sv EXCEPT !.calls[c].absent = TRUE], c)
               ELSE none
          ELSE IF svc.languageModel # 0 THEN EnterLM(sv, c)
               ELSE IF svc.rewriter
               THEN EnterRewriter([sv EXCEPT !.calls[c].absent = TRUE], c)
               ELSE none
  /\ UNCHANGED <<dom, state, ui, pipes, view, calc, lit, others,
                 pristine, last, failures>>

\* languageModel.prompt(...) is called on the session the service holds now
SendPrompt(sv, c) ==
  [sv EXCEPT !.calls[c].pc = "prompt", !.calls[c].sentOn = sv.languageModel]

\* checkSessionQuota returned without a new session: the method goes on
QuotaChecked(c) ==
  /\ svc.calls[c].pc = "lmCheck"
  /\ svc' = SendPrompt(svc, c)
  /\ UNCHANGED <<dom, state, ui, pipes, view, calc, lit, others,
                 pristine, last, failures>>

\* reinitializeLanguageModel: destroy() resolved; LanguageModel.params and
\* LanguageModel.create are called
SessionDestroyed(c) ==
  /\ svc.calls[c].pc = "lmDestroy"
  /\ svc' = [svc EXCEPT !.calls[c].pc = "lmCreate"]
  /\ UNCHANGED <<dom, state, ui, pipes, view, calc, lit, others,
                 pristine, last, failures>>

\* ... create resolved: the service holds the new session, and the method
\* prompts
SessionCreated(c) ==
  /\ svc.calls[c].pc = "lmCreate"
  /\ svc.created < MaxSessions
  /\ LET id == svc.created + 1 IN
     svc' = SendPrompt([svc EXCEPT !.created = id, !.languageModel = id], c)
  /\ UNCHANGED <<dom, state, ui, pipes, view, calc, lit, others,
                 pristine, last, failures>>

\* ... params or create rejected: the catch logs it, the service keeps the
\* destroyed session, and the method prompts
SessionNotCreated(c) ==
  /\ svc.calls[c].pc = "lmCreate"
  /\ svc' = SendPrompt(svc, c)
  /\ UNCHANGED <<dom, state, ui, pipes, view, calc, lit, others,
                 pristine, last, failures>>

\* the prompt resolved (a destroyed session resolves nothing); the answer of
\* detectAndConvertIdiom goes through JSON.parse, which may throw
PromptResolves(c, usage, parses) ==
  /\ svc.calls[c].pc = "prompt"
  /\ svc.calls[c].sentOn \notin svc.destroyed
  /\ usage >= svc.usage[svc.calls[c].sentOn]
  /\ parses \/ svc.calls[c].method = "detectAndConvertIdiom"
  /\ LET sv == [svc EXCEPT !.usage[svc.calls[c].sentOn] = usage,
                           !.calls[c].succeeded = @ \cup {"languageModel"}]
     IN svc' = IF parses
               THEN [sv EXCEPT !.calls[c] = Finish(@, "languageModel")]
               ELSE AfterLMFails(sv, c, "SyntaxError")
  /\ UNCHANGED <<dom, state, ui, pipes, view, calc, lit, others,
                 pristine, last, failures>>

\* the prompt rejected; destroying a session aborts the prompts it runs
PromptRejects(c, errorName) ==
  /\ svc.calls[c].pc = "prompt"
  /\ svc' = AfterLMFails(svc, c, errorName)
  /\ UNCHANGED <<dom, state, ui, pipes, view, calc, lit, others,
                 pristine, last, failures>>

RewriteResolves(c) ==
  /\ svc.calls[c].pc = "rewrite"
  /\ LET call == [svc.calls[c] EXCEPT !.succeeded = @ \cup {"rewriter"},
                                      !.rewritten = TRUE]
         sv   == [svc EXCEPT !.calls[c] = call]
     IN svc' = IF call.method = "adjustToneEncouraging" /\ svc.languageModel # 0
               THEN EnterLM(sv, c)
               ELSE [svc EXCEPT !.calls[c] = Finish(call, "rewriter")]
  /\ UNCHANGED <<dom, state, ui, pipes, view, calc, lit, others,
                 pristine, last, failures>>

RewriteRejects(c) ==
  /\ svc.calls[c].pc = "rewrite"
  /\ svc' = AfterRewriterFails(svc, c)
  /\ UNCHANGED <<dom, state, ui, pipes, view, calc, lit, others,
                 pristine, last, failures>>

SummarizeResolves(c) ==
  /\ svc.calls[c].pc = "summarize"
  /\ svc' = [svc EXCEPT !.calls[c] =
               Finish([@ EXCEPT !.succeeded = {"summarizer"}], "summarizer")]
  /\ UNCHANGED <<dom, state, ui, pipes, view, calc, lit, others,
                 pristine, last, failures>>

SummarizeRejects(c) ==
  /\ svc.calls[c].pc = "summarize"
  /\ svc' = [svc EXCEPT !.calls[c] = LocalFallback([@ EXCEPT !.threw = TRUE])]
  /\ UNCHANGED <<dom, state, ui, pipes, view, calc, lit, others,
                 pristine, last, failures>>

\* the page is left alone while the service is studied
EngineAtRest ==
  /\ InitEngine
  /\ pristine = [p \in Paras |-> RichHTML]
  /\ lit = NoHeadings
  /\ OthersAtRest

\* the service after initialize(): each API present or not, the session, if
\* any, with some of its quota used
InitService ==
  /\ EngineAtRest
  /\ calc = CalcIdle
  /\ \E lm \in {0, 1}, rw \in BOOLEAN, sm \in BOOLEAN, u \in UsageValues :
       svc = [languageModel |-> lm, rewriter |-> rw, summarizer |-> sm,
              created |-> lm, destroyed |-> {},
              usage |-> [id \in Sessions |-> IF id = 1 /\ lm = 1 THEN u ELSE 0],
              calls |-> [c \in Calls |-> NoCall]]

\* --------------------------------------------------------- specifications
Tones == {"off", "formal", "casual"}   \* of off, formal, casual, encouraging, neutral

\* what the external transform function may answer where one feature is
\* studied alone
AllResults == {LongResult, ShortResult}

SliderInputs     == \E level \in 0..MaxLevel : SliderInput(level)
ToneSelects      == \E tone \in Tones : ToneSelectChange(tone)
CallsReturn      == \E j \in 1..MaxPipes, result \in Results : CallReturns(j, result)
CallsReturnAny   == \E j \in 1..MaxPipes, result \in AllResults : CallReturns(j, result)
CallsThrow       == \E j \in 1..MaxPipes : CallThrows(j)

\* simplification alone
NextSimplify == SliderInputs \/ CallsReturnAny \/ CallsThrow
SpecSimplify == Init /\ [][NextSimplify]_vars

\* tone adjustment alone
NextTone == ToneSelects \/ CallsReturnAny \/ CallsThrow
SpecTone == Init /\ [][NextTone]_vars

\* the paragraph loops of simplification and tone adjustment side by side
NextLoops == SliderInputs \/ ToneSelects \/ CallsReturn \/ CallsThrow
SpecLoops == Init /\ [][NextLoops]_vars

\* simplification and expansion
Next == SliderInputs \/ ExpansionToggleClick \/ CallsReturn \/ CallsThrow
Spec == Init /\ [][Next]_vars

\* focus mode and TL;DR
NextFocus ==
  \/ FocusModeToggleClick
  \/ EscapeKey
  \/ TLDRShortcut
  \/ SummaryReturns
SpecFocus == Init /\ [][NextFocus]_vars

\* the sentences and dictionaries the scan is applied to: every sentence of
\* at most MaxSentenceLen characters over a small alphabet against every
\* dictionary of at most MaxEntries of a few phrases, and sentences of a
\* page against the dictionary of the extension
MaxSentenceLen == 4
MaxEntries == 2

Alphabet == {"a", "b", "A", " "}
Phrases == {<<"a">>, <<"a", "b">>, <<"A", "b", "a">>, <<"b", " ", "a">>}

RECURSIVE StringsUpTo(_)
StringsUpTo(n) ==
  IF n = 0 THEN {<<>>}
  ELSE LET shorter == StringsUpTo(n - 1) IN
       shorter \cup {Append(s, c) : s \in shorter, c \in Alphabet}

RECURSIVE DictionariesUpTo(_)
DictionariesUpTo(n) ==
  IF n = 0 THEN {<<>>}
  ELSE LET smaller == DictionariesUpTo(n - 1) IN
       smaller \cup
       {Append(d, [idiom |-> ph, literal |-> "meaning"]) :
          d \in smaller,
          ph \in Phrases}

NoKeyTwice(d) == \A i, j \in DOMAIN d : d[i].idiom = d[j].idiom => i = j

SmallDictionaries == {d \in DictionariesUpTo(MaxEntries) : NoKeyTwice(d)}

BreakTheIceSentence ==
  <<"L", "e", "t", "'", "s", " ", "b", "r", "e", "a", "k", " ", "t", "h",
  "e", " ", "i", "c", "e", " ", "b", "e", "f", "o", "r", "e", " ", "t",
  "h", "e", " ", "m", "e", "e", "t", "i", "n", "g", ".">>
LastStrawSentence ==
  <<"T", "h", "a", "t", " ", "w", "a", "s", " ", "t", "h", "e", " ", "L",
  "A", "S", "T", " ", "s", "t", "r", "a", "w", ".">>
ArmAndLegSentence ==
  <<"I", "t", " ", "C", "o", "s", "t", "s", " ", "A", "n", " ", "A", "r",
  "m", " ", "A", "n", "d", " ", "A", " ", "L", "e", "g">>
WeatherSentence ==
  <<"L", "o", "v", "e", "l", "y", " ", "w", "e", "a", "t", "h", "e", "r",
  " ", "t", "o", "d", "a", "y", ".">>

PageSentences ==
  {BreakTheIceSentence, LastStrawSentence, ArmAndLegSentence, WeatherSentence}

IdiomInputs ==
  {[dictionary |-> d, sentence |-> s] :
     d \in SmallDictionaries, s \in StringsUpTo(MaxSentenceLen)}
  \cup
  {[dictionary |-> IDIOMS_DICTIONARY, sentence |-> s] :
     s \in PageSentences \cup StringsUpTo(MaxSentenceLen)}

InitIdioms ==
  /\ EngineAtRest
  /\ svc = SvcIdle
  /\ \E in \in IdiomInputs :
       calc = [on |-> TRUE, fn |-> "fallbackIdiomDetection", pc |-> "called",
               dictionary |-> in.dictionary, sentence |-> in.sentence,
               result |-> Undefined]

IdiomScanReturns ==
  /\ calc.on
  /\ calc.fn = "fallbackIdiomDetection"
  /\ calc.pc = "called"
  /\ calc' = [calc EXCEPT !.pc = "returned",
                          !.result = fallbackIdiomDetection(calc.dictionary,
                                                            calc.sentence)]
  /\ UNCHANGED <<dom, state, ui, pipes, view, svc, lit, others,
                 pristine, last, failures>>

NextIdioms == IdiomScanReturns
SpecIdioms == InitIdioms /\ [][NextIdioms]_vars

\* literal language mode and the TL;DR summary over a page with headings
InitLiteral ==
  /\ InitEngine
  /\ pristine = [p \in Paras |-> RichHTML]
  /\ svc = SvcIdle
  /\ calc = CalcIdle
  /\ OthersAtRest
  /\ \E texts \in [1..NumHeadings -> HeadingTexts] :
       lit = [i \in 1..NumHeadings |-> Element(texts[i])]

NextLiteral ==
  \/ LiteralToggleClick
  \/ TLDRShortcut
  \/ SummaryReturns
SpecLiteral == InitLiteral /\ [][NextLiteral]_vars

\* ---------------------------------------------------- readability metrics
\* CognitiveEngine.calculateBasicMetrics.  A number is NaN, an infinity or a
\* finite value kept in hundredths, which is what toFixed(2) leaves of it.
NaN      == [k |-> "NaN"]
Infinity == [k |-> "Infinity"]
NegativeInfinity == [k |-> "-Infinity"]
Finite(h) == [k |-> "finite", hundredths |-> h]

WhiteSpace == {" ", "\n"}
Vowels == {"a", "e", "i", "o", "u", "y"}

\* the number of characters of S that t starts with
LeadingRun(t, S) ==
  CHOOSE n \in 0..Len(t) :
    /\ \A i \in 1..n : t[i] \in S
    /\ n < Len(t) => t[n + 1] \notin S

\* String.prototype.split on runs of at least minRun characters of Seps;
\* piece is the piece read so far
RECURSIVE split(_, _, _, _)
split(t, Seps, minRun, piece) ==
  IF t = <<>> THEN <<piece>>
  ELSE LET r == LeadingRun(t, Seps) IN
       IF r >= minRun
       THEN <<piece>> \o split(SubSeq(t, r + 1, Len(t)), Seps, minRun, <<>>)
       ELSE IF r > 0
       THEN split(SubSeq(t, r + 1, Len(t)), Seps, minRun, piece \o SubSeq(t, 1, r))
       ELSE split(Tail(t), Seps, minRun, Append(piece, Head(t)))

NotEmpty(w) == Len(w) > 0
\* s.trim().length > 0
NotBlank(w) == \E i \in DOMAIN w : w[i] \notin WhiteSpace

\* (?:[^laeiouy]es|ed|[^laeiouy]e)$ removed from a word
StripEnding(w) ==
  LET n == Len(w)
      Other(c) == c \notin (Vowels \cup {"l"})
  IN
  IF n >= 3 /\ Other(w[n - 2]) /\ w[n - 1] = "e" /\ w[n] = "s"
  THEN SubSeq(w, 1, n - 3)
  ELSE IF n >= 2 /\ w[n - 1] = "e" /\ w[n] = "d" THEN SubSeq(w, 1, n - 2)
  ELSE IF n >= 2 /\ Other(w[n - 1]) /\ w[n] = "e" THEN SubSeq(w, 1, n - 2)
  ELSE w

\* the number of matches of /[aeiouy]{1,2}/g
RECURSIVE VowelGroups(_)
VowelGroups(w) ==
  IF w = <<>> THEN 0
  ELSE LET r == LeadingRun(w, Vowels) IN
       IF r = 0 THEN VowelGroups(Tail(w))
       ELSE ((r + 1) \div 2) + VowelGroups(SubSeq(w, r + 1, Len(w)))

countSyllables(word) ==
  LET lower == toLowerCase(word) IN
  IF Len(lower) <= 3 THEN 1
  ELSE LET stripped == StripEnding(lower)
           w == IF stripped # <<>> /\ Head(stripped) = "y" THEN Tail(stripped)
                ELSE stripped
           syllables == VowelGroups(w)
       IN IF syllables > 0 THEN syllables ELSE 1

\* words.reduce((sum, word) => sum + word.length, 0)
RECURSIVE TotalLength(_)
TotalLength(words) ==
  IF words = <<>> THEN 0 ELSE Len(Head(words)) + TotalLength(Tail(words))

\* words.reduce((sum, word) => sum + this.countSyllables(word), 0)
RECURSIVE TotalSyllables(_)
TotalSyllables(words) ==
  IF words = <<>> THEN 0
  ELSE countSyllables(Head(words)) + TotalSyllables(Tail(words))

\* (a / b).toFixed(2) for integers a >= 0, b >= 0
DivideToFixed(a, b) ==
  IF b = 0 THEN (IF a = 0 THEN NaN ELSE Infinity)
  ELSE Finite((200 * a + b) \div (2 * b))

\* Math.max(0, Math.min(100, fleschScore.toFixed(2))) with
\* fleschScore = 206.835 - 1.015 * (W / S) - 84.6 * (syllables / W)
FleschScore(W, S, syllables) ==
  IF W = 0 THEN NaN
  ELSE IF S = 0 THEN Finite(0)
  ELSE LET num == 206835 * S * W - 1015 * W * W - 84600 * syllables * S
           den == 10 * S * W
           h   == (2 * num + den) \div (2 * den)
       IN Finite(IF h < 0 THEN 0 ELSE IF h > 10000 THEN 10000 ELSE h)

calculateBasicMetrics(text) ==
  LET words      == SelectSeq(split(text, WhiteSpace, 1, <<>>), NotEmpty)
      sentences  == SelectSeq(split(text, Terminators, 1, <<>>), NotBlank)
      paragraphs == SelectSeq(split(text, {"\n"}, 2, <<>>), NotBlank)
      syllables  == TotalSyllables(words)
  IN
  [wordCount |-> Len(words),
   sentenceCount |-> Len(sentences),
   paragraphCount |-> Len(paragraphs),
   avgWordLength |-> DivideToFixed(TotalLength(words), Len(words)),
   avgSentenceLength |-> DivideToFixed(Len(words), Len(sentences)),
   avgParagraphLength |-> DivideToFixed(Len(words), Len(paragraphs)),
   fleschScore |-> FleschScore(Len(words), Len(sentences), syllables),
   estimatedReadingTime |-> (Len(words) + 199) \div 200]

\* the texts the metrics are computed for: every text of at most MaxTextLen
\* characters of a small alphabet
MaxTextLen == 4
TextAlphabet == {" ", "\n", "a", "e", "."}

RECURSIVE TextsUpTo(_)
TextsUpTo(n) ==
  IF n = 0 THEN {<<>>}
  ELSE LET shorter == TextsUpTo(n - 1) IN
       shorter \cup {Append(t, c) : t \in shorter, c \in TextAlphabet}

InitMetrics ==
  /\ EngineAtRest
  /\ svc = SvcIdle
  /\ \E text \in TextsUpTo(MaxTextLen) :
       calc = [on |-> TRUE, fn |-> "calculateBasicMetrics", pc |-> "called",
               text |-> text, result |-> Undefined]

MetricsReturn ==
  /\ calc.on
  /\ calc.fn = "calculateBasicMetrics"
  /\ calc.pc = "called"
  /\ calc' = [calc EXCEPT !.pc = "returned",
                          !.result = calculateBasicMetrics(calc.text)]
  /\ UNCHANGED <<dom, state, ui, pipes, view, svc, lit, others,
                 pristine, last, failures>>

NextMetrics == MetricsReturn
SpecMetrics == InitMetrics /\ [][NextMetrics]_vars

\* ------------------------------------------------------------ the chunker
\* chunkContent over a page of two candidates: one of any tag, ancestry,
\* text length and number of nested blocks, and a plain paragraph after it
MaxBlocks == 4

CandidateTags == {"p", "h2", "li", "div"}
CandidateKinds == {"nav", "footer", "header", "article", "cogniread"}
CandidateLengths == {0, 9, 10, 49, 50, 80}

Candidates ==
  [tag : CandidateTags, within : SUBSET CandidateKinds,
   length : CandidateLengths, childBlocks : 0..MaxBlocks]

PlainParagraph ==
  [tag |-> "p", within |-> {"article"}, length |-> 80, childBlocks |-> 0]

InitChunker ==
  /\ EngineAtRest
  /\ svc = SvcIdle
  /\ \E c \in Candidates :
       calc = [on |-> TRUE, fn |-> "chunkContent", pc |-> "called",
               elements |-> <<c, PlainParagraph>>, result |-> Undefined]

ChunkerReturns ==
  /\ calc.on
  /\ calc.fn = "chunkContent"
  /\ calc.pc = "called"
  /\ calc' = [calc EXCEPT !.pc = "returned",
                          !.result = chunksOf(calc.elements, 1)]
  /\ UNCHANGED <<dom, state, ui, pipes, view, svc, lit, others,
                 pristine, last, failures>>

NextChunker == ChunkerReturns
SpecChunker == InitChunker /\ [][NextChunker]_vars

\* the language model methods of the service, called while others run
ErrorNames == {"AbortError", "Error"}

QuotaMethods == {"simplifyText", "convertToActiveVoice"}

BeginsQuota      == \E c \in Calls, method \in QuotaMethods : BeginCall(c, method, FALSE)
QuotaChecks      == \E c \in Calls : QuotaChecked(c)
SessionsDestroyed == \E c \in Calls : SessionDestroyed(c)
SessionsCreated  == \E c \in Calls : SessionCreated(c)
SessionsNotCreated == \E c \in Calls : SessionNotCreated(c)
PromptsResolve   == \E c \in Calls, usage \in UsageValues, parses \in BOOLEAN :
                      PromptResolves(c, usage, parses)
PromptsReject    == \E c \in Calls, errorName \in ErrorNames : PromptRejects(c, errorName)
RewritesResolve  == \E c \in Calls : RewriteResolves(c)
RewritesReject   == \E c \in Calls : RewriteRejects(c)
SummariesResolve == \E c \in Calls : SummarizeResolves(c)
SummariesReject  == \E c \in Calls : SummarizeRejects(c)

NextQuota ==
  \/ BeginsQuota
  \/ QuotaChecks
  \/ SessionsDestroyed
  \/ SessionsCreated
  \/ SessionsNotCreated
  \/ PromptsResolve
  \/ PromptsReject
  \/ RewritesResolve
  \/ RewritesReject
SpecQuota == InitService /\ [][NextQuota]_vars

\* every transform of the service, one call at a time
BeginsService == \E method \in Methods, literal \in BOOLEAN : BeginCall(1, method, literal)

NextService ==
  \/ BeginsService
  \/ QuotaChecks
  \/ SessionsDestroyed
  \/ SessionsCreated
  \/ SessionsNotCreated
  \/ PromptsResolve
  \/ PromptsReject
  \/ RewritesResolve
  \/ RewritesReject
  \/ SummariesResolve
  \/ SummariesReject
SpecService == InitService /\ [][NextService]_vars

\* every modelled control of the panel, used by a user who lets a feature
\* finish before touching the next control, but may reset at any moment;
\* every transform call succeeds
Quiescent == pipes = <<>>

PatientSlider      == Quiescent /\ SliderInputs
PatientExpansion   == Quiescent /\ ExpansionToggleClick
PatientTone        == Quiescent /\ ToneSelects
PatientActiveVoice == Quiescent /\ ActiveVoiceToggleClick
PatientRestructure == Quiescent /\ RestructureToggleClick
PatientDyslexia    == Quiescent /\ DyslexiaToggleClick

NextPanel ==
  \/ PatientSlider
  \/ PatientExpansion
  \/ PatientTone
  \/ PatientActiveVoice
  \/ PatientRestructure
  \/ PatientDyslexia
  \/ EscapeHatchClick
  \/ CallsReturn
SpecPanel == Init /\ [][NextPanel]_vars

\* tone adjustment by a user who changes the selector only when the tone
\* chosen before has been applied to the whole page
NextToneChanges == PatientTone \/ CallsReturnAny \/ CallsThrow
SpecToneChanges == Init /\ [][NextToneChanges]_vars

\* the page and the AI service at rest while another part is studied
InitAtRest ==
  /\ EngineAtRest
  /\ svc = SvcIdle
  /\ calc = CalcIdle

\* the background script over tabs that are activated from the popup and
\* from the context menu, navigate and are closed
NextBackground ==
  \/ \E tabId \in Tabs : ActivateOnTab(tabId)
  \/ \E tabId \in Tabs : ContextMenuActivate(tabId)
  \/ \E j \in 1..MaxInjections * NumTabs : InjectionStepResolves(j)
  \/ \E j \in 1..MaxInjections * NumTabs : InjectionStepRejects(j)
  \/ \E tabId \in Tabs : DeactivateOnTab(tabId)
  \/ \E tabId \in Tabs : CleanupAnswered(tabId)
  \/ \E tabId \in Tabs : CheckActivation(tabId)
  \/ \E tabId \in Tabs : TabRemoved(tabId)
  \/ \E tabId \in Tabs : TabNavigates(tabId)
SpecBackground == InitAtRest /\ [][NextBackground]_vars

\* the prompt service: its availability check and its calls
NextPromptAPI ==
  \/ \E outcome \in AvailabilityOutcomes : AvailabilityChecked(outcome)
  \/ \E c \in PromptCalls, method \in {"prompt", "promptStreaming"} : BeginPrompt(c, method)
  \/ \E c \in PromptCalls : CreateResolves(c)
  \/ \E c \in PromptCalls : CreateRejects(c)
  \/ \E c \in PromptCalls, settled \in {"resolved", "rejected"} : SessionPromptSettles(c, settled)
  \/ \E c \in PromptCalls : StreamOpens(c)
  \/ \E c \in PromptCalls, callbackThrows \in BOOLEAN : ChunkArrives(c, callbackThrows)
  \/ \E c \in PromptCalls, settled \in {"resolved", "rejected"} : StreamSettles(c, settled)
SpecPromptAPI == InitAtRest /\ [][NextPromptAPI]_vars

\* the reader view, switched from the panel and left by its exit button
NextReader ==
  \/ \E found \in BOOLEAN, throwAt \in 0..Len(ActivateSteps) :
       DistractionFreeToggleClick(found, throwAt)
  \/ ExitButtonClick
  \/ ThemeToggleClick
SpecReader == InitAtRest /\ [][NextReader]_vars

\* the panel until the extension is closed: its controls respond while they
\* are in the page; a pipeline under way goes on after the close
Open == view.uiPresent

OpenSlider == Open /\ PatientSlider
OpenTone   == Open /\ PatientTone
OpenFocus  == Open /\ FocusModeToggleClick

NextClose ==
  \/ OpenSlider
  \/ OpenTone
  \/ OpenFocus
  \/ CloseConfirmClick
  \/ CallsReturn
SpecClose == Init /\ [][NextClose]_vars

\* focus mode over a page whose paragraphs are simplified and taken out of
\* the document under it; the slider is moved when no pipeline is under way
\* and every transform call succeeds
ElementsRewritten == \E p \in Paras : EnclosingElementRewritten(p)

NextChunks ==
  \/ FocusModeToggleClick
  \/ EscapeKey
  \/ nextFocusChunk
  \/ previousFocusChunk
  \/ ElementsRewritten
  \/ PatientSlider
  \/ CallsReturn
SpecChunks == Init /\ [][NextChunks]_vars

\* ------------------------------------------------------------- properties
HasClass(p, cls) == cls \in dom[p].classList
NoneMarked(cls)  == \A p \in Paras : ~HasClass(p, cls)
PipesOf(kind)    == {j \in 1..Len(pipes) : pipes[j].kind = kind}

\* the page had something to transform when it was loaded
SubstantialAtLoad ==
  findSubstantialParagraphs([p \in Paras |-> FreshNode(pristine[p])]) # <<>>

\* C1 (SpecSimplify, where simplification is the only thing that mutates the
\* page): a paragraph that does not carry the simplify marker, whether never
\* transformed or transformed and reversed, has exactly the innerHTML it had
\* before any transform was applied.
RoundTripRestoresInnerHTML ==
  \A p \in Paras : ~HasClass(p, SimplifiedClass) => dom[p].innerHTML = pristine[p]

\* C25 (SpecToneChanges, where the tone selector is the only control used and
\* each tone is let finish): whenever the selector is back on 'off', whatever
\* tones were chosen since the page was loaded, every paragraph has exactly
\* the innerHTML it had before the first tone was applied.
ToneOffRestoresInnerHTML ==
  state.toneAdjustment = "off" => \A p \in Paras : dom[p].innerHTML = pristine[p]

\* C26 (SpecBackground): no step calls injectContentScripts for a tab that is
\* in activeTabs or that has an injection under way.
InjectionUnderWay(tabId) ==
  \E j \in DOMAIN background.injections : background.injections[j].tabId = tabId

InjectionStartedOn(tabId) == background'.started[tabId] > background.started[tabId]

NoSecondInjection ==
  [][\A tabId \in Tabs :
       InjectionStartedOn(tabId) =>
         tabId \notin background.activeTabs /\ ~InjectionUnderWay(tabId)]_vars

\* C27 (SpecBackground): every tab in activeTabs is open and its current
\* document holds each of the injected scripts, so checkActivation, which
\* answers activeTabs.has(tabId), reports no tab that was closed or that
\* navigated since its scripts were injected.
HoldsScripts(tabId) ==
  /\ tabs[tabId].open
  /\ \A f \in ContentScripts : tabs[tabId].injected[f] > 0

ActiveTabsHoldScripts == \A tabId \in background.activeTabs : HoldsScripts(tabId)

\* C29 (SpecPromptAPI): every session the service created belongs to one call
\* of prompt() or promptStreaming(); destroy() was called on it once if that
\* call has settled and not at all if it has not; and a session was created
\* only with the API available.
OwnersOf(id) == {c \in PromptCalls : promptAPI.calls[c].session = id}

PromptSessionsDestroyedOnce ==
  /\ promptAPI.created > 0 => promptAPI.isAvailable
  /\ \A id \in 1..promptAPI.created :
       /\ Cardinality(OwnersOf(id)) = 1
       /\ \A c \in OwnersOf(id) :
            promptAPI.destroys[id] = IF promptAPI.calls[c].pc = "done" THEN 1 ELSE 0

\* C29 witness: a streaming call that was rejected after a chunk had arrived
\* has destroyed its session, while another call was refused or is under way
StreamRejectedSessionDestroyed ==
  \E c \in PromptCalls :
    /\ promptAPI.calls[c].pc = "done"
    /\ promptAPI.calls[c].method = "promptStreaming"
    /\ promptAPI.calls[c].settled = "rejected"
    /\ promptAPI.calls[c].chunks > 0
    /\ promptAPI.calls[c].session # 0
    /\ promptAPI.destroys[promptAPI.calls[c].session] = 1

\* C30 (SpecReader): when activate() has thrown, the children of
\* document.body and their display are what they were when it was called (no
\* child is left hidden, no reader container is left in the page) and
\* isActive is false.
FailedActivationLeavesPageAsItWas ==
  reader.outcome = "failed" =>
    /\ ~reader.isActive
    /\ \A e \in BodyElements :
         /\ reader.body[e].inBody = reader.before[e].inBody
         /\ reader.body[e].inBody => reader.body[e].display = reader.before[e].display

\* C2: the step that enables expansion while simplification is on leaves no
\* node with the simplify marker and has expansion applied or under way on a
\* page that has a substantial paragraph.
ExpansionEnabledOverSimplification ==
  /\ state.simplificationLevel > 0
  /\ ~state.expansionMode
  /\ state'.expansionMode

ExpandOverSimplifyClearsAndApplies ==
  [][ExpansionEnabledOverSimplification =>
       /\ \A p \in Paras : SimplifiedClass \notin dom'[p].classList
       /\ findSubstantialParagraphs(dom') # <<>> =>
            \/ \E j \in 1..Len(pipes') : pipes'[j].kind = "expand"
            \/ \E p \in Paras : ExpandedClass \in dom'[p].classList]_vars

\* C3: simplification and expansion are never on together, neither as flags
\* nor as marker classes on one paragraph.
SimplifyExpandMutuallyExclusive ==
  /\ ~(state.simplificationLevel > 0 /\ state.expansionMode)
  /\ \A p \in Paras : ~(HasClass(p, SimplifiedClass) /\ HasClass(p, ExpandedClass))

\* C4: a stored snapshot is never overwritten: in every step, a paragraph that
\* holds originalHTML (originalText) holds the same value afterwards or none.
SnapshotWrittenOnlyWhenNone ==
  [][\A p \in Paras :
       /\ dom[p].originalHTML # Undefined =>
            dom'[p].originalHTML \in {dom[p].originalHTML, Undefined}
       /\ dom[p].originalText # Undefined =>
            dom'[p].originalText \in {dom[p].originalText, Undefined}]_vars

\* C5 (SpecSimplify): once no pipeline is pending, paragraphs carry the
\* simplify marker if and only if the simplification level is above 0 (on a
\* page that had a substantial paragraph to mark).
QuiescentMarkersAgreeWithFlag ==
  pipes = <<>> =>
    ((\E p \in Paras : HasClass(p, SimplifiedClass))
       <=> (state.simplificationLevel > 0 /\ SubstantialAtLoad))

\* C6 (SpecPanel): "reset all" cancels the pipelines under way: a pipeline that
\* was pending when reset ran has issued no transform call since.
ResetStopsPipelines ==
  \A j \in 1..Len(pipes) :
    pipes[j].resetAt > 0 => Len(pipes[j].issued) = pipes[j].resetAt

\* C7 (SpecLoops): when a transform call throws, the paragraph keeps its
\* content, is marked as processed with the pipeline's class, and the pipeline
\* goes on to the next paragraph (or ends, after the last one).
FailedParagraphKeptMarkedBatchContinues ==
  [][(last'.ev = "threw" /\ failures' = failures + 1) =>
       LET p == last'.p IN
       /\ dom'[p].innerHTML = dom[p].innerHTML
       /\ MarkerClass(last'.kind) \in dom'[p].classList
       /\ \E j \in 1..Len(pipes) :
            /\ pipes[j].kind = last'.kind
            /\ pipes[j].paragraphs[pipes[j].i] = p
            /\ IF pipes[j].i < Len(pipes[j].paragraphs)
               THEN /\ Len(pipes') = Len(pipes)
                    /\ pipes'[j].i = pipes[j].i + 1
               ELSE Len(pipes') = Len(pipes) - 1]_vars

\* C8 (SpecLoops): every pending pipeline has exactly one call outstanding;
\* the calls were issued for the paragraphs in document order with none
\* skipped, and every call before the outstanding one has been handled, in
\* the order of issue.
InDocumentOrder(sq) == \A a, b \in 1..Len(sq) : a < b => sq[a] < sq[b]

CallsInDocumentOrderOneAtATime ==
  \A j \in 1..Len(pipes) :
    LET q == pipes[j] IN
    /\ Len(q.issued) = Len(q.handled) + 1
    /\ q.handled = SubSeq(q.issued, 1, Len(q.handled))
    /\ q.issued = SubSeq(q.paragraphs, 1, Len(q.issued))
    /\ InDocumentOrder(q.paragraphs)

SecondCallAfterFirstHandled ==
  \E j \in 1..Len(pipes) :
    /\ Len(pipes[j].handled) >= 1
    /\ Len(pipes[j].issued) = Len(pipes[j].handled) + 1
    /\ HasClass(pipes[j].handled[1], MarkerClass(pipes[j].kind))

\* C9 (SpecLoops).  A transform is inactive when no node carries its marker
\* and none of its pipelines is pending.  Removing an inactive transform
\* changes nothing in the document: no paragraph, and no loading element.
Inactive(kind) == NoneMarked(MarkerClass(kind)) /\ PipesOf(kind) = {}

Document == [dom |-> dom, pipes |-> pipes]

RemoveWhenInactiveChangesNothing ==
  /\ Inactive("simplify")    => removeSimplification(dom, pipes) = Document
  /\ Inactive("expand")      => removeExpansion(dom, pipes) = Document
  /\ Inactive("tone")        => removeToneAdjustment(dom, pipes) = Document
  /\ Inactive("activeVoice") => removeActiveVoice(dom, pipes) = Document
  /\ Inactive("restructure") => removeSentenceRestructuring(dom, pipes) = Document

\* C10 (SpecPanel): after "reset all" every flag is off and no paragraph
\* carries a marker class or a snapshot.
ResetRestoresEverything ==
  last.ev = "reset" =>
    /\ state.simplificationLevel = 0
    /\ ~state.expansionMode
    /\ state.toneAdjustment = "off"
    /\ ~state.activeVoice
    /\ ~state.sentenceRestructuring
    /\ ~state.dyslexiaMode
    /\ \A p \in Paras :
         /\ dom[p].classList \cap MarkerClasses = {}
         /\ dom[p].originalHTML = Undefined
         /\ dom[p].originalText = Undefined

\* C11 (SpecFocus): focus mode and TL;DR mode are never on together, and no
\* TL;DR container is in the page while focus mode is on.
FocusExcludesTLDR ==
  /\ ~(state.focusMode /\ state.tldrMode)
  /\ state.focusMode => view.tldr = <<>>

\* C12 (SpecChunks): when focus mode is enabled and chunking yields no chunk,
\* the "no readable content" notice is shown, focus mode ends off and the
\* overlay is hidden again; the notice is shown in no other case.
FocusBeingEnabled == "focus" \notin ui.active /\ "focus" \in ui'.active

ZeroChunksGiveNotice ==
  [][FocusBeingEnabled =>
       IF chunkContent(dom) = <<>>
       THEN view'.alert /\ ~state'.focusMode /\ view'.overlayHidden
       ELSE ~view'.alert /\ state'.focusMode]_vars

\* the notice is up although the page has paragraphs long enough to read:
\* they carry the simplify marker, which makes chunkContent pass them over
NoticeOnSimplifiedPage ==
  /\ view.alert
  /\ ~state.focusMode
  /\ "focus" \in ui.active
  /\ \E p \in Paras : HasClass(p, SimplifiedClass)

\* C13 (SpecChunks): showing a chunk whose element has left the document is
\* skipped.  On a step to the next or previous chunk, and on the refresh that
\* ends a simplification, with the chunk to show detached: the focus
\* container keeps its content, no element of the document is marked as
\* focused, and showFocusChunk changes no detached element (the simplify
\* pipeline itself writes its result into the paragraph it holds).
CurrentChunk(st) == st.contentChunks[st.currentFocusIndex + 1]

StaleChunk(st) ==
  /\ st.focusMode
  /\ st.currentFocusIndex < Len(st.contentChunks)
  /\ ~dom[CurrentChunk(st)].attached

StaleChunkSkipped ==
  [][/\ (last'.ev \in {"next", "previous"}
          /\ state'.currentFocusIndex # state.currentFocusIndex
          /\ StaleChunk(state')) =>
            /\ view' = view
            /\ \A p \in Paras : ~dom[p].attached => dom'[p] = dom[p]
            /\ \A p \in Paras : dom[p].attached => FocusedClass \notin dom'[p].classList
     /\ (last'.ev = "returned" /\ Len(pipes') < Len(pipes) /\ StaleChunk(state)) =>
            /\ view' = view
            /\ \A p \in Paras \ {last'.p} : ~dom[p].attached => dom'[p] = dom[p]
            /\ FocusedClass \in dom'[last'.p].classList
                  => FocusedClass \in dom[last'.p].classList
            /\ \A p \in Paras : dom[p].attached => FocusedClass \notin dom'[p].classList]_vars

\* the user stepped to a chunk whose element is gone; the container still
\* shows the chunk before
SteppedOntoStaleChunk ==
  /\ last.ev \in {"next", "previous"}
  /\ state.focusMode
  /\ ~dom[CurrentChunk(state)].attached
  /\ view.focusContent # Undefined
  /\ \A p \in Paras : ~HasClass(p, FocusedClass)

\* C14 (SpecQuota): a call that reached the language model with the session
\* at 95% of its quota or more has sent its prompt, if it has sent one, on
\* another session than that one.
PromptGoesToFreshSession ==
  \A c \in Calls :
    (svc.calls[c].startedHigh /\ svc.calls[c].sentOn # 0)
      => svc.calls[c].sentOn # svc.calls[c].startSession

\* C28 (SpecQuota): when reinitializeLanguageModel returns, whether the new
\* session was created or its creation failed, the session the service holds
\* is one that has not been destroyed, or the service holds none.
ReinitializeReturns(c) ==
  /\ svc.calls[c].pc = "lmCreate"
  /\ svc'.calls[c].pc # "lmCreate"

ReinitializeLeavesLiveSessionOrNone ==
  [][\A c \in Calls :
       ReinitializeReturns(c) =>
         svc'.languageModel = 0 \/ svc'.languageModel \notin svc'.destroyed]_vars

\* C15 as claimed (SpecService): a finished call whose first API was absent,
\* or one of whose API calls threw, resolved with its local fallback.
Finished(c) == svc.calls[c].pc = "done"

ModelResults == {"languageModel", "rewriter", "summarizer"}
LocalResults == {"fallback", "literalMeaning"}

AbsentOrThrownGivesLocalFallback ==
  \A c \in Calls :
    (Finished(c) /\ (svc.calls[c].absent \/ svc.calls[c].threw))
      => svc.calls[c].result \in LocalResults

\* C15 as amended: a finished call resolved, never rejected; the answer of an
\* API is returned only if that API answered; when no API answered, the
\* result is the local fallback, except that detectAndConvertIdiom resolves
\* with { hasIdiom: false } when its prompt was aborted.
ResolvesWithFallbackWhenNoAPIAnswers ==
  \A c \in Calls :
    Finished(c) =>
      LET call == svc.calls[c] IN
      /\ call.result \in ModelResults \cup LocalResults \cup {"noIdiom"}
      /\ call.result \in ModelResults => call.result \in call.succeeded
      /\ call.result = "noIdiom" =>
            call.method = "detectAndConvertIdiom" /\ call.threw
      /\ (call.succeeded = {} /\ call.result # "noIdiom") =>
            call.result \in LocalResults

\* the language model threw and the rewriter answered in its place
RewriterAnsweredAfterThrow ==
  \E c \in Calls :
    /\ Finished(c)
    /\ svc.calls[c].method = "convertToActiveVoice"
    /\ svc.calls[c].threw
    /\ svc.calls[c].result = "rewriter"

\* C16 (SpecClose): after closeExtension every flag is off, no paragraph
\* carries a marker class or a snapshot, no TL;DR container is left and the
\* elements of the extension are out of the page.
CloseDisablesEverything ==
  last.ev = "close" =>
    /\ state.simplificationLevel = 0
    /\ ~state.expansionMode
    /\ state.toneAdjustment = "off"
    /\ ~state.activeVoice
    /\ ~state.sentenceRestructuring
    /\ ~state.dyslexiaMode
    /\ ~state.focusMode
    /\ ~state.tldrMode
    /\ ~view.uiPresent
    /\ view.tldr = <<>>
    /\ \A p \in Paras :
         /\ dom[p].classList \cap (MarkerClasses \cup {FocusedClass}) = {}
         /\ dom[p].originalHTML = Undefined
         /\ dom[p].originalText = Undefined

\* C17 (SpecIdioms): the scan answers hasIdiom exactly when some phrase of
\* the dictionary occurs in the sentence, letter case aside, and the idiom it
\* returns is a phrase that occurs and no occurring phrase is longer.
Scanned ==
  calc.on /\ calc.fn = "fallbackIdiomDetection" /\ calc.pc = "returned"

Occurring ==
  {i \in DOMAIN calc.dictionary :
     includes(toLowerCase(calc.sentence), toLowerCase(calc.dictionary[i].idiom))}

IdiomScanSelectsLongestMatch ==
  Scanned =>
    /\ calc.result.hasIdiom = (Occurring # {})
    /\ calc.result.hasIdiom =>
         /\ \E i \in Occurring : calc.dictionary[i].idiom = calc.result.idiom
         /\ \A j \in Occurring :
              Len(calc.dictionary[j].idiom) <= Len(calc.result.idiom)

\* a shorter phrase stands before a longer one in the dictionary and both
\* occur, in other letter case, in the sentence
LongerOfTwoMatchesReturned ==
  /\ Scanned
  /\ calc.result.hasIdiom
  /\ calc.sentence # toLowerCase(calc.sentence)
  /\ \E i, j \in Occurring :
       /\ i < j
       /\ Len(calc.dictionary[i].idiom) < Len(calc.dictionary[j].idiom)
       /\ calc.result.idiom = calc.dictionary[j].idiom

\* C18 (SpecIdioms): with the dictionary of the extension, the scan of
\* "Let's break the ice before the meeting." finds the idiom "break the ice".
BreakTheIceFound ==
  (/\ Scanned
   /\ calc.dictionary = IDIOMS_DICTIONARY
   /\ calc.sentence = BreakTheIceSentence)
  => /\ calc.result.hasIdiom
     /\ calc.result.idiom = <<"b", "r", "e", "a", "k", " ", "t", "h", "e", " ",
                              "i", "c", "e">>

\* C19 (SpecLiteral): once literal language mode has been turned off, no
\* idiom span is left in a heading or in an item of a TL;DR summary, and the
\* text of each of them is the text it had before any span was made.
DocumentElements ==
  {lit[i] : i \in DOMAIN lit}
  \cup UNION {{view.tldr[c][i] : i \in DOMAIN view.tldr[c]} : c \in DOMAIN view.tldr}

LiteralOffUnwrapsEverySpan ==
  (last.ev = "toggle" /\ last.kind = "literal" /\ ~state.idiomMode) =>
    \A el \in DocumentElements :
      /\ \A i \in DOMAIN el.nodes : ~el.nodes[i].span
      /\ nodesText(el.nodes) = el.source

\* C20 (SpecMetrics): for a text without a word, calculateBasicMetrics
\* returns and no field of what it returns is NaN.
NoNaNWithoutWords ==
  (/\ calc.on
   /\ calc.fn = "calculateBasicMetrics"
   /\ calc.pc = "returned"
   /\ calc.result.wordCount = 0)
  => /\ calc.result.avgWordLength.k # NaN.k
     /\ calc.result.avgSentenceLength.k # NaN.k
     /\ calc.result.avgParagraphLength.k # NaN.k
     /\ calc.result.fleschScore.k # NaN.k

\* C21 (SpecChunker): a candidate with a <nav> ancestor is never a chunk,
\* and a candidate in a <header> inside an <article> is a chunk whenever its
\* text is long enough and, for a div, it is no container.
Chunked == calc.on /\ calc.fn = "chunkContent" /\ calc.pc = "returned"

IsChunk(i) == \E k \in DOMAIN calc.result : calc.result[k] = i

ChecksPassed(c) ==
  /\ c.length >= (IF c.tag = "div" THEN 50 ELSE 10)
  /\ c.tag = "div" => c.childBlocks <= 2

InArticleHeader(c) == {"header", "article"} \subseteq c.within

NavNeverArticleHeaderAlways ==
  Chunked =>
    \A i \in DOMAIN calc.elements :
      LET c == calc.elements[i] IN
      /\ "nav" \in c.within => ~IsChunk(i)
      /\ (InArticleHeader(c) /\ ChecksPassed(c)) => IsChunk(i)

\* C21, amended: ... and a candidate in a <header> inside an <article> that
\* has no <nav> or <footer> ancestor and lies in no element of the extension
\* is a chunk exactly when it passes the length and container checks.
NavNeverArticleHeaderUnlessExcluded ==
  Chunked =>
    \A i \in DOMAIN calc.elements :
      LET c == calc.elements[i] IN
      /\ "nav" \in c.within => ~IsChunk(i)
      /\ (InArticleHeader(c) /\ c.within \cap {"nav", "footer", "cogniread"} = {})
           => (IsChunk(i) <=> ChecksPassed(c))

ArticleHeaderHeadingReturned ==
  /\ Chunked
  /\ calc.elements[1].tag = "h2"
  /\ calc.elements[1].within = {"header", "article"}
  /\ calc.elements[1].length = 10
  /\ IsChunk(1)

\* C22 (SpecChunker): a div is a chunk exactly when its trimmed text has at
\* least 50 characters and at most 2 nested blocks lie in it.
DivChunkExactlyWhenLongAndNoContainer ==
  Chunked =>
    \A i \in DOMAIN calc.elements :
      LET c == calc.elements[i] IN
      c.tag = "div" => (IsChunk(i) <=> (c.length >= 50 /\ c.childBlocks <= 2))

\* C22, amended: a div that the exclusion filter lets through is a chunk
\* exactly when its trimmed text has at least 50 characters and at most 2
\* nested blocks lie in it.
Excluded(c) ==
  \/ c.within \cap {"nav", "footer", "cogniread"} # {}
  \/ "header" \in c.within /\ "article" \notin c.within

DivPastFilterChunkExactlyWhenLongAndNoContainer ==
  Chunked =>
    \A i \in DOMAIN calc.elements :
      LET c == calc.elements[i] IN
      (c.tag = "div" /\ ~Excluded(c))
        => (IsChunk(i) <=> (c.length >= 50 /\ c.childBlocks <= 2))

DivWithOneParagraphAccepted ==
  /\ Chunked
  /\ calc.elements[1].tag = "div"
  /\ calc.elements[1].length = 80
  /\ calc.elements[1].childBlocks = 1
  /\ IsChunk(1)

\* C23 (SpecChunks): the focus index is a position of contentChunks, and 0
\* when there is no chunk; a step to the next chunk at the last one and a step
\* to the previous chunk at the first one leave it where it is.
FocusIndexValid ==
  /\ state.currentFocusIndex >= 0
  /\ state.contentChunks = <<>> => state.currentFocusIndex = 0
  /\ state.contentChunks # <<>> =>
       state.currentFocusIndex < Len(state.contentChunks)

FocusUIAgreesWithFlag ==
  (last.kind = "focus" /\ last.ev \in {"toggle", "escape"}) =>
    /\ ui.tldrDisabled <=> state.focusMode
    /\ ~view.overlayHidden <=> state.focusMode
    /\ ~view.counterHidden <=> state.focusMode
    /\ ~view.contentHidden <=> state.focusMode

====
